---- MODULE Spec2Model ----
(***************************************************************************)
(* Model of the diff sanitizer and unified-diff parser of the Bitbucket    *)
(* PR reviewer (services/sanitization_service.py,                          *)
(* services/diff_parser_service.py, config/settings.py).                   *)
(*                                                                         *)
(* Text is a sequence of one-character strings.  Regular expressions are   *)
(* sequences of quantified character classes, matched greedily with        *)
(* backtracking, leftmost first, as Python's re module matches them.       *)
(***************************************************************************)
EXTENDS Integers, Sequences, FiniteSets, TLC

(***************************************************************************)
(* Characters and character classes                                        *)
(***************************************************************************)
Lower == {"a", "b", "c", "d", "e", "f", "g", "h", "i", "j", "k", "l", "m",
          "n", "o", "p", "q", "r", "s", "t", "u", "v", "w", "x", "y", "z"}

Upper == {"A", "B", "C", "D", "E", "F", "G", "H", "I", "J", "K", "L", "M",
          "N", "O", "P", "Q", "R", "S", "T", "U", "V", "W", "X", "Y", "Z"}

Digit == {"0", "1", "2", "3", "4", "5", "6", "7", "8", "9"}

Whitespace == {" ", "\t", "\n", "\r", "\f"}

AlphaNum == Lower \cup Upper \cup Digit

Word == AlphaNum \cup {"_"}

\* ch is in the character class cls of a pattern.
InClass(cls, ch) ==
    CASE cls = "\\s"            -> ch \in Whitespace
      [] cls = "\\w"            -> ch \in Word
      [] cls = "\\d"            -> ch \in Digit
      [] cls = "[:=]"           -> ch \in {":", "="}
      [] cls = "['\"]"          -> ch \in {"'", "\""}
      [] cls = "[^'\"]"         -> ch \notin {"'", "\""}
      [] cls = "[^:]"           -> ch # ":"
      [] cls = "[^@]"           -> ch # "@"
      [] cls = "[a-zA-Z0-9]"    -> ch \in AlphaNum
      [] cls = "[a-zA-Z0-9-]"   -> ch \in AlphaNum \/ ch = "-"
      [] cls = "[a-zA-Z0-9_-]"  -> ch \in Word \/ ch = "-"
      [] cls = "[a-zA-Z0-9_]"   -> ch \in Word
      [] cls = "[a-zA-Z0-9+/]"  -> ch \in AlphaNum \/ ch \in {"+", "/"}
      [] cls = "[a-f0-9]"       -> ch \in {"a", "b", "c", "d", "e", "f"} \cup Digit
      [] cls = "[0-9A-Z]"       -> ch \in Digit \cup Upper

\* ch is matched by one occurrence of a pattern item: a literal character
\* or a character class.
Accepts(item, ch) == IF item.lit THEN ch = item.cls ELSE InClass(item.cls, ch)

(***************************************************************************)
(* Regular expressions: a sequence of items [lit, cls, min, max]; max = -1 *)
(* is unbounded.  All quantifiers of the shipped patterns are greedy.      *)
(***************************************************************************)
Lit(s) ==
    [i \in 1..Len(s) |-> [lit |-> TRUE, cls |-> s[i], min |-> 1, max |-> 1]]
One(cls)          == << [lit |-> FALSE, cls |-> cls, min |-> 1, max |-> 1] >>
Star(cls)         == << [lit |-> FALSE, cls |-> cls, min |-> 0, max |-> -1] >>
Plus(cls)         == << [lit |-> FALSE, cls |-> cls, min |-> 1, max |-> -1] >>
AtLeast(cls, n)   == << [lit |-> FALSE, cls |-> cls, min |-> n, max |-> -1] >>
Exactly(cls, n)   == << [lit |-> FALSE, cls |-> cls, min |-> n, max |-> n] >>

\* Length of the longest run of characters of text from pos that the item
\* accepts, capped by the item's max.
Run(item, text, pos) ==
    LET rest == Len(text) - pos + 1
        cap  == IF item.max >= 0 /\ item.max < rest THEN item.max ELSE rest
        stop == { n \in 0..(cap - 1) : ~Accepts(item, text[pos + n]) }
    IN  IF stop = {} THEN cap
        ELSE CHOOSE n \in stop : \A j \in 0..(n - 1) : j \notin stop

\* Match items k.. of a pattern at position pos of text.  The result is
\* << >> when there is no match; otherwise r[1] = pos and r[1 + j] is the
\* position following the text matched by item k + j - 1.  Each item takes
\* the largest count for which the rest of the pattern matches (greedy
\* matching with backtracking).
RECURSIVE MatchItems(_, _, _, _)
MatchItems(items, k, text, pos) ==
    IF k > Len(items)
    THEN << pos >>
    ELSE IF items[k].max = 1 /\ items[k].min = 1
    THEN IF pos <= Len(text) /\ Accepts(items[k], text[pos])
         THEN LET r == MatchItems(items, k + 1, text, pos + 1)
              IN  IF r = << >> THEN << >> ELSE << pos >> \o r
         ELSE << >>
    ELSE LET run  == Run(items[k], text, pos)
             rest == { MatchItems(items, k + 1, text, pos + c) :
                          c \in items[k].min..run } \ { << >> }
         IN  IF rest = {}
             THEN << >>
             ELSE << pos >> \o (CHOOSE r \in rest : \A o \in rest : o[1] <= r[1])

\* A compiled pattern: groups is the number of capture groups; group 1 is
\* items 1..g1, group 2 items g1+1..g2, group 3 the rest.
Pattern3(p1, p2, p3) ==
    [groups |-> 3, items |-> p1 \o p2 \o p3,
     g1 |-> Len(p1), g2 |-> Len(p1) + Len(p2)]
Pattern1(p1) ==
    [groups |-> 1, items |-> p1, g1 |-> Len(p1), g2 |-> Len(p1)]

\* The matches of pattern at every position of text: [s, e1, e2, e] with
\* group 1 = s..e1-1, group 2 = e1..e2-1, group 3 = e2..e-1 (one-group
\* patterns: e1 = e2 = e).
MatchesAt(pattern, text) ==
    LET n == Len(pattern.items)
        all == { MatchItems(pattern.items, 1, text, pos) : pos \in 1..Len(text) }
    IN  { [s |-> r[1], e1 |-> r[1 + pattern.g1], e2 |-> r[1 + pattern.g2],
           e |-> r[1 + n]] : r \in all \ { << >> } }

\* The leftmost match among ms that starts at pos or later.
NextMatch(ms, pos) ==
    CHOOSE m \in ms : m.s >= pos /\ \A o \in ms : o.s >= pos => m.s <= o.s

\* The non-overlapping matches found scanning left to right from pos
\* (re.finditer), given the matches ms at every position.
RECURSIVE Scan(_, _)
Scan(ms, pos) ==
    IF \A m \in ms : m.s < pos
    THEN << >>
    ELSE << NextMatch(ms, pos) >> \o Scan(ms, NextMatch(ms, pos).e)

Matches(pattern, text) == Scan(MatchesAt(pattern, text), 1)

Slice(text, from, to) == SubSeq(text, from, to - 1)

(***************************************************************************)
(* config/settings.py: the shipped sanitization patterns                   *)
(***************************************************************************)
kw_password == <<"p", "a", "s", "s", "w", "o", "r", "d">>
kw_api_key  == <<"a", "p", "i", "_", "k", "e", "y">>
kw_token    == <<"t", "o", "k", "e", "n">>
kw_secret   == <<"s", "e", "c", "r", "e", "t">>
kw_key      == <<"k", "e", "y">>
kw_auth     == <<"a", "u", "t", "h">>
kw_pass     == <<"p", "a", "s", "s">>
kw_pwd      == <<"p", "w", "d">>
kw_export   == <<"e", "x", "p", "o", "r", "t">>
KW_PASSWORD == <<"P", "A", "S", "S", "W", "O", "R", "D">>
KW_SECRET   == <<"S", "E", "C", "R", "E", "T">>
KW_KEY      == <<"K", "E", "Y">>
KW_TOKEN    == <<"T", "O", "K", "E", "N">>
KW_AUTH     == <<"A", "U", "T", "H">>

replacement == <<"[", "R", "E", "D", "A", "C", "T", "E", "D", "]">>

\* (kw\s*[:=]\s*['\"])([^'\"]*)(['\"])
QuotedPattern(kw) ==
    Pattern3(Lit(kw) \o Star("\\s") \o One("[:=]") \o Star("\\s") \o One("['\"]"),
             Star("[^'\"]"),
             One("['\"]"))

\* (export\s+\w*KW\w*\s*=\s*['\"])([^'\"]*)(['\"])
ExportPattern(kw) ==
    Pattern3(Lit(kw_export) \o Plus("\\s") \o Star("\\w") \o Lit(kw) \o Star("\\w")
                 \o Star("\\s") \o Lit(<<"=">>) \o Star("\\s") \o One("['\"]"),
             Star("[^'\"]"),
             One("['\"]"))

\* (\w*KW\w*\s*=\s*['\"])([^'\"]*)(['\"])
EnvPattern(kw) ==
    Pattern3(Star("\\w") \o Lit(kw) \o Star("\\w")
                 \o Star("\\s") \o Lit(<<"=">>) \o Star("\\s") \o One("['\"]"),
             Star("[^'\"]"),
             One("['\"]"))

\* (prefix cls{n,})
TokenPattern(prefix, cls, n) == Pattern1(Lit(prefix) \o AtLeast(cls, n))

\* (scheme://[^:]+:)([^@]+)(@)
UrlPattern(scheme) ==
    Pattern3(Lit(scheme) \o Lit(<<":", "/", "/">>) \o Plus("[^:]") \o Lit(<<":">>),
             Plus("[^@]"),
             Lit(<<"@">>))

\* (AKIA[0-9A-Z]{16})
AwsPattern == Pattern1(Lit(<<"A", "K", "I", "A">>) \o Exactly("[0-9A-Z]", 16))

\* (eyJ[a-zA-Z0-9_-]+\.[a-zA-Z0-9_-]+\.[a-zA-Z0-9_-]+)
JwtPattern ==
    Pattern1(Lit(<<"e", "y", "J">>) \o Plus("[a-zA-Z0-9_-]") \o Lit(<<".">>)
                 \o Plus("[a-zA-Z0-9_-]") \o Lit(<<".">>) \o Plus("[a-zA-Z0-9_-]"))

\* (kw\s*[:=]\s*['\"])(cls{n,})(['\"])
GenericPattern(kw, cls, n) ==
    Pattern3(Lit(kw) \o Star("\\s") \o One("[:=]") \o Star("\\s") \o One("['\"]"),
             AtLeast(cls, n),
             One("['\"]"))

patterns ==
    << QuotedPattern(kw_password), QuotedPattern(kw_api_key),
       QuotedPattern(kw_token), QuotedPattern(kw_secret),
       QuotedPattern(kw_key), QuotedPattern(kw_auth),
       QuotedPattern(kw_pass), QuotedPattern(kw_pwd),
       ExportPattern(KW_PASSWORD), ExportPattern(KW_SECRET),
       ExportPattern(KW_KEY), ExportPattern(KW_TOKEN), ExportPattern(KW_AUTH),
       EnvPattern(KW_PASSWORD), EnvPattern(KW_SECRET),
       EnvPattern(KW_KEY), EnvPattern(KW_TOKEN), EnvPattern(KW_AUTH),
       TokenPattern(<<"s", "k", "-">>, "[a-zA-Z0-9]", 20),
       TokenPattern(<<"s", "k", "-", "p", "r", "o", "j", "-">>, "[a-zA-Z0-9]", 20),
       TokenPattern(<<"p", "k", "_">>, "[a-zA-Z0-9]", 20),
       TokenPattern(<<"p", "k", "_", "t", "e", "s", "t", "_">>, "[a-zA-Z0-9]", 20),
       TokenPattern(<<"x", "o", "x", "b", "-">>, "[a-zA-Z0-9-]", 1),
       TokenPattern(<<"x", "o", "x", "p", "-">>, "[a-zA-Z0-9-]", 1),
       TokenPattern(<<"g", "h", "p", "_">>, "[a-zA-Z0-9]", 36),
       TokenPattern(<<"g", "h", "o", "_">>, "[a-zA-Z0-9]", 36),
       TokenPattern(<<"g", "h", "u", "_">>, "[a-zA-Z0-9]", 36),
       TokenPattern(<<"g", "h", "s", "_">>, "[a-zA-Z0-9]", 36),
       TokenPattern(<<"g", "h", "r", "_">>, "[a-zA-Z0-9]", 36),
       UrlPattern(<<"m", "o", "n", "g", "o", "d", "b">>),
       UrlPattern(<<"p", "o", "s", "t", "g", "r", "e", "s">>),
       UrlPattern(<<"m", "y", "s", "q", "l">>),
       UrlPattern(<<"r", "e", "d", "i", "s">>),
       AwsPattern,
       JwtPattern,
       GenericPattern(kw_password, "[a-zA-Z0-9+/]", 20),
       GenericPattern(kw_secret, "[a-f0-9]", 32),
       GenericPattern(kw_key, "[a-zA-Z0-9_]", 8) >>

NumPatterns == Len(patterns)

(***************************************************************************)
(* services/sanitization_service.py                                        *)
(***************************************************************************)
\* Python's None passed where a text is expected: a value that is no text
\* (a text is a sequence of one-character strings).
None == <<"None">>

\* Replace with \1[REDACTED] for three groups: the suffix is dropped.
Replace_DropsSuffix(pattern, text, m) ==
    IF pattern.groups = 3
    THEN Slice(text, m.s, m.e1) \o <<"[", "R", "E", "D", "A", "C", "T", "E", "D", "]">>
    ELSE <<"[", "R", "E", "D", "A", "C", "T", "E", "D", "]">>

\* Replace with \1\2[REDACTED]\3 for three groups: the token is added
\* after the credential instead of in its place.
Replace_KeepsCredential(pattern, text, m) ==
    IF pattern.groups = 3
    THEN Slice(text, m.s, m.e2) \o <<"[", "R", "E", "D", "A", "C", "T", "E", "D", "]">>
             \o Slice(text, m.e2, m.e)
    ELSE <<"[", "R", "E", "D", "A", "C", "T", "E", "D", "]">>

\* The text a match is replaced by: \1[REDACTED]\3 for three groups,
\* [REDACTED] for one group, the configured replacement otherwise.
Replace(pattern, text, m) ==
    IF pattern.groups = 3
    THEN Slice(text, m.s, m.e1) \o <<"[", "R", "E", "D", "A", "C", "T", "E", "D", "]">>
             \o Slice(text, m.e2, m.e)
    ELSE IF pattern.groups = 1
    THEN <<"[", "R", "E", "D", "A", "C", "T", "E", "D", "]">>
    ELSE replacement

\* pattern.sub(repl, text): every match of the scan replaced, the text
\* between matches copied.
RECURSIVE SubFrom(_, _, _, _, _)
SubFrom(pattern, text, ms, j, pos) ==
    IF j > Len(ms)
    THEN Slice(text, pos, Len(text) + 1)
    ELSE Slice(text, pos, ms[j].s) \o Replace(pattern, text, ms[j])
             \o SubFrom(pattern, text, ms, j + 1, ms[j].e)

\* pattern.sub(repl, text, count=1): only the first match is replaced.
Sub_FirstMatch(pattern, text) ==
    IF Matches(pattern, text) = << >>
    THEN text
    ELSE SubFrom(pattern, text, << Matches(pattern, text)[1] >>, 1, 1)

Sub(pattern, text) == SubFrom(pattern, text, Matches(pattern, text), 1, 1)

\* sanitize_diff applied to a text: the loop over patterns k..NumPatterns.
RECURSIVE SanitizeFrom(_, _)
SanitizeFrom(text, k) ==
    IF k > NumPatterns THEN text
    ELSE LET out == Sub(patterns[k], text)
         IN  IF Len(out) >= 0 THEN SanitizeFrom(out, k + 1) ELSE << >>

\* if diff is None: return ""; otherwise the loop over the patterns.
sanitize_diff(text) ==
    IF text = None THEN << >> ELSE SanitizeFrom(text, 1)

\* Credentials with match[0] in place of match[1] for three groups.
Credentials_Group1(pattern, text) ==
    LET ms == Matches(pattern, text)
    IN  [j \in 1..Len(ms) |-> Slice(text, ms[j].s, ms[j].e1)]

\* The strings one pattern contributes to detect_credentials: group 2 of
\* each match of a three-group pattern, group 1 (the whole match) otherwise.
Credentials(pattern, text) ==
    LET ms == Matches(pattern, text)
    IN  [j \in 1..Len(ms) |->
            IF pattern.groups = 3
            THEN Slice(text, ms[j].e1, ms[j].e2)
            ELSE Slice(text, ms[j].s, ms[j].e)]

RECURSIVE DetectFrom(_, _)
DetectFrom(text, k) ==
    IF k > NumPatterns THEN << >>
    ELSE Credentials(patterns[k], text) \o DetectFrom(text, k + 1)

detect_credentials(text) == DetectFrom(text, 1)

(***************************************************************************)
(* services/diff_parser_service.py                                         *)
(***************************************************************************)
\* current_file = None and current_line_number = None
NoFile == << >>
NoLine == -1

\* if not diff: the text is None or empty.
Not(text) == text = None \/ text = << >>

\* text[pos..] starts with the characters of lit.
StartsWith(text, pos, lit) ==
    /\ pos + Len(lit) - 1 <= Len(text)
    /\ \A j \in 1..Len(lit) : text[pos + j - 1] = lit[j]

\* diff.split('\n'): the maximal newline-free pieces of a non-empty text.
Split(text) ==
    LET nl    == { p \in 1..Len(text) : text[p] = "\n" }
        start == { 1 } \cup { p + 1 : p \in nl }
        first(j) == CHOOSE p \in start : Cardinality({ q \in start : q < p }) = j - 1
        stop(p)  == IF \E q \in nl : q >= p
                    THEN CHOOSE q \in nl : q >= p /\ \A o \in nl : o >= p => q <= o
                    ELSE Len(text) + 1
    IN  [j \in 1..Cardinality(start) |-> Slice(text, first(j), stop(first(j)))]

\* SlashEnd with [REDACTED] required by the tolerant pattern: \[REDACTED\]/
SlashEnd_RedactedRequired(line, pos, tolerant) ==
    IF ~tolerant /\ StartsWith(line, pos, <<"/">>) THEN pos + 1
    ELSE IF tolerant /\ StartsWith(line, pos,
                <<"[", "R", "E", "D", "A", "C", "T", "E", "D", "]", "/">>)
    THEN pos + 11
    ELSE 0

\* The position following (?:\[REDACTED\])?/ at pos, 0 when it does not
\* match there; the strict pattern of parse_original_diff has no
\* (?:\[REDACTED\])? part.
SlashEnd(line, pos, tolerant) ==
    IF StartsWith(line, pos, <<"/">>) THEN pos + 1
    ELSE IF tolerant /\ StartsWith(line, pos,
                <<"[", "R", "E", "D", "A", "C", "T", "E", "D", "]", "/">>)
    THEN pos + 11
    ELSE 0

\* ^diff --git a(?:\[REDACTED\])?/(.+?) b(?:\[REDACTED\])?/(.+?)$ matched
\* against a line: group 2 (the 'b' path), << >> when there is no match.
\* The lazy group 1 ends at the first ' b/' that leaves a non-empty path.
file_header_pattern(line, tolerant) ==
    LET a_end == IF StartsWith(line, 1,
                        <<"d", "i", "f", "f", " ", "-", "-", "g", "i", "t", " ", "a">>)
                 THEN SlashEnd(line, 13, tolerant) ELSE 0
        b_end(p) == IF StartsWith(line, p, <<" ", "b">>)
                    THEN SlashEnd(line, p + 2, tolerant) ELSE 0
        seps == { p \in (a_end + 1)..Len(line) :
                     b_end(p) > 0 /\ b_end(p) <= Len(line) }
    IN  IF a_end = 0 \/ seps = {}
        THEN << >>
        ELSE LET p == CHOOSE q \in seps : \A o \in seps : q <= o
             IN  Slice(line, b_end(p), Len(line) + 1)

\* The number of digits of line from pos.
Digits(line, pos) ==
    Run([lit |-> FALSE, cls |-> "\\d", min |-> 1, max |-> -1], line, pos)

\* The value of a string of decimal digits.
RECURSIVE DecimalValue(_)
DecimalValue(s) ==
    IF s = << >> THEN 0
    ELSE 10 * DecimalValue(SubSeq(s, 1, Len(s) - 1))
         + (CHOOSE d \in 0..9 :
               s[Len(s)] = <<"0", "1", "2", "3", "4", "5", "6", "7", "8", "9">>[d + 1])

\* The interpreter's limit on the digits of a string converted by int()
\* (sys.int_max_str_digits, 4300 by default from Python 3.11 on, the
\* oldest version setup.py accepts); a longer string raises ValueError.
int_max_str_digits == 4300
ValueError == -2

\* int(s) of a string of decimal digits.
int(s) ==
    IF Len(s) > int_max_str_digits THEN ValueError ELSE DecimalValue(s)

\* The position following (?:,\d+)? at pos.
CountEnd(line, pos) ==
    IF StartsWith(line, pos, <<",">>) /\ Digits(line, pos + 1) > 0
    THEN pos + 1 + Digits(line, pos + 1)
    ELSE pos

\* ^@@ -(\d+)(?:,\d+)? \+(\d+)(?:,\d+)? @@ matched against a line:
\* int(group 2), the start line in the new file (ValueError when int
\* raises); NoLine when no match.
hunk_header_pattern(line) ==
    LET old     == 5
        old_end == CountEnd(line, old + Digits(line, old))
        new     == old_end + 2
        new_end == CountEnd(line, new + Digits(line, new))
    IN  IF /\ StartsWith(line, 1, <<"@", "@", " ", "-">>)
           /\ Digits(line, old) > 0
           /\ StartsWith(line, old_end, <<" ", "+">>)
           /\ Digits(line, new) > 0
           /\ StartsWith(line, new_end, <<" ", "@", "@">>)
        THEN int(Slice(line, new, new + Digits(line, new)))
        ELSE NoLine

DiffLocation(file_path, line_number, content, is_addition) ==
    [file_path |-> file_path, line_number |-> line_number,
     content |-> content, is_addition |-> is_addition]

\* The local state of a parse before its first line.
ParseStart(lines) ==
    [lines |-> lines, i |-> 1, current_file |-> NoFile,
     current_line_number |-> NoLine, lines_since_hunk |-> 0,
     locations |-> << >>, raised |-> FALSE]

\* OnFileHeader that keeps the path of the first file.
OnFileHeader_KeepsPath(f, path) ==
    [f EXCEPT !.current_file = IF f.current_file = NoFile THEN path ELSE @,
              !.current_line_number = NoLine,
              !.lines_since_hunk = 0]

\* OnFileHeader without the reset of the line cursor.
OnFileHeader_KeepsCursor(f, path) ==
    [f EXCEPT !.current_file = path,
              !.lines_since_hunk = 0]

\* A file header: current_file is the 'b' path, the line cursor is unset.
OnFileHeader(f, path) ==
    [f EXCEPT !.current_file = path,
              !.current_line_number = NoLine,
              !.lines_since_hunk = 0]

\* OnHunkHeader without the reset of lines_since_hunk.
OnHunkHeader_KeepsCount(f, start) ==
    [f EXCEPT !.current_line_number = start]

\* A hunk header: the line cursor is the start line in the new file.
OnHunkHeader(f, start) ==
    [f EXCEPT !.current_line_number = start,
              !.lines_since_hunk = 0]

\* if not current_file or current_line_number is None: continue
NoContext(f) == f.current_file = NoFile \/ f.current_line_number = NoLine

\* OnAddition with content = line instead of line[1:].
OnAddition_KeepsMarker(f, line) ==
    [f EXCEPT !.locations = Append(f.locations,
                  DiffLocation(f.current_file,
                               f.current_line_number + f.lines_since_hunk,
                               line,
                               TRUE)),
              !.lines_since_hunk = f.lines_since_hunk + 1]

\* An addition line: a location at the cursor, then the cursor advances.
OnAddition(f, line) ==
    [f EXCEPT !.locations = Append(f.locations,
                  DiffLocation(f.current_file,
                               f.current_line_number + f.lines_since_hunk,
                               Slice(line, 2, Len(line) + 1),
                               TRUE)),
              !.lines_since_hunk = f.lines_since_hunk + 1]

\* OnRemoval advancing the cursor as a context line does.
OnRemoval_Advances(f) == [f EXCEPT !.lines_since_hunk = f.lines_since_hunk + 1]

\* A removal line: the cursor does not advance.
OnRemoval(f) == f

\* A context line: the cursor advances.
OnContext(f) == [f EXCEPT !.lines_since_hunk = f.lines_since_hunk + 1]

\* One iteration of the loop over lines: the state after line f.i.
ParseLine(f, tolerant) ==
    LET line == f.lines[f.i]
        next == [f EXCEPT !.i = f.i + 1]
    IN  IF file_header_pattern(line, tolerant) # << >>
        THEN OnFileHeader(next, file_header_pattern(line, tolerant))
        ELSE IF hunk_header_pattern(line) = ValueError
        THEN [f EXCEPT !.raised = TRUE]
        ELSE IF hunk_header_pattern(line) # NoLine
        THEN OnHunkHeader(next, hunk_header_pattern(line))
        ELSE IF NoContext(f)
        THEN next
        ELSE IF StartsWith(line, 1, <<"+">>)
        THEN OnAddition(next, line)
        ELSE IF StartsWith(line, 1, <<"-">>)
        THEN OnRemoval(next)
        ELSE IF StartsWith(line, 1, <<" ">>)
        THEN OnContext(next)
        ELSE next

\* The result of a call that raised an exception instead of returning.
Raised == <<"raised">>

\* The loop run to its end from state f: the locations it returns, or
\* Raised when int() raises on a hunk header.
RECURSIVE ParseLoop(_, _)
ParseLoop(f, tolerant) ==
    IF f.raised THEN Raised
    ELSE IF f.i > Len(f.lines) THEN f.locations
    ELSE ParseLoop(ParseLine(f, tolerant), tolerant)

\* The state of the loop after the first n lines.
RECURSIVE ParseLoopTo(_, _, _)
ParseLoopTo(f, tolerant, n) ==
    IF f.raised \/ f.i > n \/ f.i > Len(f.lines) THEN f
    ELSE ParseLoopTo(ParseLine(f, tolerant), tolerant, n)

\* parse_diff and parse_original_diff applied to a text.
parse_diff(text) ==
    IF Not(text) THEN << >> ELSE ParseLoop(ParseStart(Split(text)), TRUE)

parse_original_diff(text) ==
    IF Not(text) THEN << >> ELSE ParseLoop(ParseStart(Split(text)), FALSE)

\* The parse of text raises: a line that is no file header matches the
\* hunk header pattern and int() raises on its group 2.
ParseRaises(text, tolerant) ==
    /\ ~Not(text)
    /\ \E i \in 1..Len(Split(text)) :
          /\ file_header_pattern(Split(text)[i], tolerant) = << >>
          /\ hunk_header_pattern(Split(text)[i]) = ValueError

\* '\n'.join(lines)
RECURSIVE Join(_)
Join(lines) ==
    IF Len(lines) = 0 THEN << >>
    ELSE IF Len(lines) = 1 THEN lines[1]
    ELSE lines[1] \o <<"\n">> \o Join(Tail(lines))

(***************************************************************************)
(* mcp_server/tools/auto_post_comments_tool.py: _parse_review_feedback     *)
(***************************************************************************)
\* sub in text
In(sub, text) ==
    \E p \in 1..(Len(text) - Len(sub) + 1) : StartsWith(text, p, sub)

\* The backquote character (written by name: the module's lexical rules
\* do not admit it in a string).
backquote == "backquote"

\* text.strip()
strip(text) ==
    LET keep == { p \in 1..Len(text) : text[p] \notin Whitespace }
    IN  IF keep = {} THEN << >>
        ELSE SubSeq(text,
                    CHOOSE p \in keep : \A q \in keep : p <= q,
                    CHOOSE p \in keep : \A q \in keep : q <= p)

\* current_issue = None
NoIssue == [severity |-> "none"]

\* "Unknown", the file_path of an issue that has no location.
Unknown == <<"U", "n", "k", "n", "o", "w", "n">>

\* line.startswith('**P0') or 'P0:' in line or 'P0 ' in line
HasMarker(line, marker) ==
    \/ StartsWith(line, 1, <<"*", "*">> \o marker)
    \/ In(marker \o <<":">>, line)
    \/ In(marker \o <<" ">>, line)

\* The state of _parse_review_feedback before the first line.
FeedbackStart ==
    [issues |-> << >>, current_issue |-> NoIssue, current_code |-> << >>,
     in_code_block |-> FALSE]

\* A severity marker: the issue in progress is appended, a new one starts.
OnMarker(st, severity, title, line) ==
    [st EXCEPT
        !.issues = IF st.current_issue # NoIssue
                   THEN Append(st.issues, st.current_issue) ELSE st.issues,
        !.current_issue =
            [severity |-> severity, title |-> title, description |-> line,
             code_snippet |-> << >>, file_path |-> Unknown, line_number |-> 0]]

\* A line of three backquotes: the code block opens or closes; on closing, the lines
\* collected become the code_snippet of the issue in progress.
OnFence(st) ==
    IF st.in_code_block /\ st.current_issue # NoIssue
    THEN [st EXCEPT !.in_code_block = FALSE,
                    !.current_issue.code_snippet = Join(st.current_code),
                    !.current_code = << >>]
    ELSE [st EXCEPT !.in_code_block = ~st.in_code_block]

\* One iteration of the loop over the lines of the feedback.
FeedbackLine(st, raw) ==
    LET line == strip(raw)
    IN  IF HasMarker(line, <<"P", "0">>)
        THEN OnMarker(st, "P0", "Critical Issue", line)
        ELSE IF HasMarker(line, <<"P", "1">>)
        THEN OnMarker(st, "P1", "Important Issue", line)
        ELSE IF HasMarker(line, <<"P", "2">>)
        THEN OnMarker(st, "P2", "Minor Issue", line)
        ELSE IF StartsWith(line, 1, << backquote, backquote, backquote >>)
        THEN OnFence(st)
        ELSE IF st.in_code_block
        THEN [st EXCEPT !.current_code = Append(st.current_code, line)]
        ELSE IF st.current_issue # NoIssue /\ st.current_issue.description # line
        THEN [st EXCEPT !.current_issue.description =
                            st.current_issue.description \o <<" ">> \o line]
        ELSE st

RECURSIVE FeedbackLoop(_, _, _)
FeedbackLoop(st, lines, i) ==
    IF i > Len(lines) THEN st
    ELSE FeedbackLoop(FeedbackLine(st, lines[i]), lines, i + 1)

\* _parse_review_feedback(feedback): the issues of a feedback text.
parse_review_feedback(feedback) ==
    LET st == FeedbackLoop(FeedbackStart, Split(feedback), 1)
    IN  IF st.current_issue # NoIssue
        THEN Append(st.issues, st.current_issue) ELSE st.issues

(***************************************************************************)
(* mcp_server/tools/integrated_review_tool.py                              *)
(***************************************************************************)
\* The names bound in the module integrated_review_tool: its imports and
\* its two top-level functions.
integrated_review_tool_names ==
    { "Dict", "Any", "List", "FastMCP", "BitbucketService",
      "PlatformDetectionService", "SanitizationService", "MatchingService",
      "DiffParserService", "Comment", "SeverityLevel",
      "register_integrated_review_tool", "_parse_ai_feedback" }

\* The patterns of the two re.findall calls: word characters followed by
\* .swift, and by .pbxproj.
swift_file_pattern == Pattern1(Plus("\\w") \o Lit(<<".", "s", "w", "i", "f", "t">>))
pbxproj_file_pattern == Pattern1(Plus("\\w") \o Lit(<<".", "p", "b", "x", "p", "r", "o", "j">>))

\* matched_location = None
NoLocation == [file_path |-> << >>]

\* The file names of a description: the .swift names, then the .pbxproj names.
file_matches(description) ==
    Credentials(swift_file_pattern, description)
        \o Credentials(pbxproj_file_pattern, description)

\* The first location that satisfies Test, NoLocation if none does.
FirstLocation(locations, Test(_)) ==
    IF \E n \in 1..Len(locations) : Test(locations[n])
    THEN locations[CHOOSE n \in 1..Len(locations) :
                      /\ Test(locations[n])
                      /\ \A o \in 1..(n - 1) : ~Test(locations[o])]
    ELSE NoLocation

\* The loops over file_matches and diff_locations: the first file name that
\* occurs in the file_path of a location, and the first such location.
MatchByFile(names, locations) ==
    LET HasName(j) == \E n \in 1..Len(locations) : In(names[j], locations[n].file_path)
        hits == { j \in 1..Len(names) : HasName(j) }
    IN  IF hits = {} THEN NoLocation
        ELSE LET name == names[CHOOSE j \in hits : \A o \in hits : j <= o]
                 Test(location) == In(name, location.file_path)
             IN  FirstLocation(locations, Test)

\* The first location whose content contains the stripped code snippet.
MatchByContent(snippet, locations) ==
    LET Test(location) == In(strip(snippet), location.content)
    IN  FirstLocation(locations, Test)

\* matched_location of an issue: by file name; if there is none and the
\* issue has a code snippet, by content.
MatchedLocation(issue, locations) ==
    IF MatchByFile(file_matches(issue.description), locations) # NoLocation
    THEN MatchByFile(file_matches(issue.description), locations)
    ELSE IF issue.code_snippet # << >>
    THEN MatchByContent(issue.code_snippet, locations)
    ELSE NoLocation

\* The structured comment of an issue.
StructuredComment(issue, locations) ==
    LET matched_location == MatchedLocation(issue, locations)
    IN  [content |-> issue.description,
         severity |-> issue.severity,
         file_path |-> IF matched_location # NoLocation
                       THEN matched_location.file_path ELSE Unknown,
         line_number |-> IF matched_location # NoLocation
                         THEN matched_location.line_number ELSE 0,
         is_summary |-> FALSE]

\* A tool result that reports an error.
ErrorResult(error) == [kind |-> "error", error |-> error]

\* parse_ai_feedback_with_line_numbers: fetched is what get_pr_diff
\* returned, Raised if it raised.  The call of _parse_review_feedback, a
\* name that is not bound in this module, raises NameError, and the
\* handler of the try statement turns every exception into an error result.
parse_ai_feedback_with_line_numbers(fetched, ai_feedback) ==
    IF fetched = Raised
    THEN ErrorResult("Failed to parse AI feedback")
    ELSE IF Not(fetched)
    THEN ErrorResult("Failed to get PR diff")
    ELSE IF ParseRaises(fetched, TRUE)
    THEN ErrorResult("Failed to parse AI feedback")
    ELSE IF "_parse_review_feedback" \notin integrated_review_tool_names
    THEN ErrorResult("Failed to parse AI feedback")
    ELSE LET issues == parse_review_feedback(ai_feedback)
             diff_locations == parse_diff(fetched)
         IN  IF issues = << >>
             THEN ErrorResult("No issues found")
             ELSE [kind |-> "success",
                   comments |-> [n \in 1..Len(issues) |->
                                    StructuredComment(issues[n], diff_locations)]]

\* ''.join(parts)
RECURSIVE Concat(_)
Concat(parts) ==
    IF Len(parts) = 0 THEN << >> ELSE parts[1] \o Concat(Tail(parts))

(***************************************************************************)
(* services/diff_parser_service.py: the issue extractors                   *)
(***************************************************************************)
UpperCase == <<"A", "B", "C", "D", "E", "F", "G", "H", "I", "J", "K", "L", "M",
               "N", "O", "P", "Q", "R", "S", "T", "U", "V", "W", "X", "Y", "Z">>
LowerCase == <<"a", "b", "c", "d", "e", "f", "g", "h", "i", "j", "k", "l", "m",
               "n", "o", "p", "q", "r", "s", "t", "u", "v", "w", "x", "y", "z">>

\* str.lower() on one character and on a text.
lower_char(ch) ==
    IF \E i \in 1..26 : UpperCase[i] = ch
    THEN LowerCase[CHOOSE i \in 1..26 : UpperCase[i] = ch]
    ELSE ch

lower(text) == [i \in 1..Len(text) |-> lower_char(text[i])]

\* Accepts under re.IGNORECASE: a literal matches in either case.
AcceptsIgnoreCase(item, ch) ==
    IF item.lit THEN lower_char(ch) = lower_char(item.cls)
    ELSE InClass(item.cls, ch)

\* Run under re.IGNORECASE.
RunIgnoreCase(item, text, pos) ==
    LET rest == Len(text) - pos + 1
        cap  == IF item.max >= 0 /\ item.max < rest THEN item.max ELSE rest
        stop == { n \in 0..(cap - 1) : ~AcceptsIgnoreCase(item, text[pos + n]) }
    IN  IF stop = {} THEN cap
        ELSE CHOOSE n \in stop : \A j \in 0..(n - 1) : j \notin stop

\* The positions at which a match of items k.. that starts at pos can end.
RECURSIVE Ends(_, _, _, _)
Ends(items, k, text, pos) ==
    IF k > Len(items)
    THEN { pos }
    ELSE UNION { Ends(items, k + 1, text, pos + c) :
                    c \in items[k].min..RunIgnoreCase(items[k], text, pos) }

\* re.search(pattern, text, re.IGNORECASE) finds a match.  A pattern is
\* [items, bol, eol]: bol is a leading ^, eol a trailing $, which matches
\* at the end of the text and before a newline that ends the text.
re_search(pattern, text) ==
    \E pos \in (IF pattern.bol THEN { 1 } ELSE 1..(Len(text) + 1)) :
        \E e \in Ends(pattern.items, 1, text, pos) :
            pattern.eol =>
                \/ e = Len(text) + 1
                \/ e = Len(text) /\ text[e] = "\n"

\* The patterns of extract_extension_function_issues.
extension_function_patterns ==
    << [items |-> Lit(<<"f", "u", "n">>) \o Plus("\\s") \o Plus("\\w") \o Lit(<<".">>) \o Plus("\\w") \o Lit(<<"(">>), bol |-> FALSE, eol |-> FALSE],
       [items |-> Lit(<<"e", "x", "t", "e", "n", "s", "i", "o", "n">>) \o Plus("\\s") \o Plus("\\w"), bol |-> FALSE, eol |-> FALSE],
       [items |-> Lit(<<"i", "s", "N", "o", "t", "N", "u", "l", "l", "O", "r", "E", "m", "p", "t", "y">>), bol |-> FALSE, eol |-> FALSE],
       [items |-> Lit(<<"i", "s", "N", "u", "l", "l", "O", "r", "E", "m", "p", "t", "y">>), bol |-> FALSE, eol |-> FALSE],
       [items |-> Lit(<<"i", "s", "E", "m", "p", "t", "y">>), bol |-> FALSE, eol |-> FALSE],
       [items |-> Lit(<<"g", "u", "a", "r", "d">>) \o Plus("\\s") \o Lit(<<"l", "e", "t">>), bol |-> FALSE, eol |-> FALSE],
       [items |-> Lit(<<"i", "f">>) \o Plus("\\s") \o Lit(<<"l", "e", "t">>), bol |-> FALSE, eol |-> FALSE] >>

\* The patterns of extract_import_issues.
import_patterns ==
    << [items |-> Lit(<<"i", "m", "p", "o", "r", "t">>) \o Plus("\\s"), bol |-> TRUE, eol |-> FALSE],
       [items |-> Lit(<<"-">>) \o Star("\\s") \o Lit(<<"i", "m", "p", "o", "r", "t">>) \o Plus("\\s"), bol |-> TRUE, eol |-> FALSE],
       [items |-> Lit(<<"+">>) \o Star("\\s") \o Lit(<<"i", "m", "p", "o", "r", "t">>) \o Plus("\\s"), bol |-> TRUE, eol |-> FALSE],
       [items |-> Lit(<<"i", "m", "p", "o", "r", "t">>) \o Plus("\\s") \o Lit(<<"F", "o", "u", "n", "d", "a", "t", "i", "o", "n">>), bol |-> FALSE, eol |-> FALSE],
       [items |-> Lit(<<"i", "m", "p", "o", "r", "t">>) \o Plus("\\s") \o Lit(<<"S", "w", "i", "f", "t", "U", "I">>), bol |-> FALSE, eol |-> FALSE],
       [items |-> Lit(<<"i", "m", "p", "o", "r", "t">>) \o Plus("\\s") \o Lit(<<"U", "I", "K", "i", "t">>), bol |-> FALSE, eol |-> FALSE] >>

\* The patterns of extract_documentation_issues.
documentation_patterns ==
    << [items |-> Lit(<<"/", "/">>) \o Star("\\s") \o Lit(<<"T", "O", "D", "O">>), bol |-> FALSE, eol |-> FALSE],
       [items |-> Lit(<<"/", "/">>) \o Star("\\s") \o Lit(<<"F", "I", "X", "M", "E">>), bol |-> FALSE, eol |-> FALSE],
       [items |-> Lit(<<"/", "*", "*">>), bol |-> FALSE, eol |-> FALSE],
       [items |-> Lit(<<"/", "/">>) \o Star("\\s"), bol |-> FALSE, eol |-> FALSE],
       [items |-> Lit(<<"/", "/", "/">>), bol |-> FALSE, eol |-> FALSE],
       [items |-> Lit(<<"/", "/", " ", "M", "A", "R", "K", ":">>), bol |-> FALSE, eol |-> FALSE] >>

\* The patterns of extract_swift_issues.
swift_patterns ==
    << [items |-> Lit(<<"!">>) \o Star("\\s"), bol |-> FALSE, eol |-> TRUE],
       [items |-> Lit(<<"a", "s", "!">>) \o Plus("\\s") \o Plus("\\w"), bol |-> FALSE, eol |-> FALSE],
       [items |-> Lit(<<"p", "r", "i", "n", "t">>) \o Star("\\s") \o Lit(<<"(">>), bol |-> FALSE, eol |-> FALSE],
       [items |-> Lit(<<"N", "S", "L", "o", "g">>) \o Star("\\s") \o Lit(<<"(">>), bol |-> FALSE, eol |-> FALSE],
       [items |-> Lit(<<"D", "i", "s", "p", "a", "t", "c", "h", "Q", "u", "e", "u", "e", ".", "m", "a", "i", "n", ".", "a", "s", "y", "n", "c">>), bol |-> FALSE, eol |-> FALSE],
       [items |-> Lit(<<"@", "I", "B", "O", "u", "t", "l", "e", "t">>), bol |-> FALSE, eol |-> FALSE],
       [items |-> Lit(<<"@", "I", "B", "A", "c", "t", "i", "o", "n">>), bol |-> FALSE, eol |-> FALSE],
       [items |-> Lit(<<"w", "e", "a", "k">>) \o Plus("\\s") \o Lit(<<"v", "a", "r">>), bol |-> FALSE, eol |-> FALSE],
       [items |-> Lit(<<"u", "n", "o", "w", "n", "e", "d">>) \o Plus("\\s") \o Lit(<<"v", "a", "r">>), bol |-> FALSE, eol |-> FALSE] >>

\* The inner loop without its break: the location is appended for every
\* pattern that finds its content.
RECURSIVE AppendedFor_NoBreak(_, _, _)
AppendedFor_NoBreak(location, issue_patterns, k) ==
    IF k > Len(issue_patterns)
    THEN << >>
    ELSE IF re_search(issue_patterns[k], location.content)
    THEN << location >> \o AppendedFor_NoBreak(location, issue_patterns, k + 1)
    ELSE AppendedFor_NoBreak(location, issue_patterns, k + 1)

\* The inner loop of find_issue_locations from pattern k on: what it
\* appends to issue_locations for one location.  The first pattern that
\* finds the content appends the location and breaks.
RECURSIVE AppendedFor(_, _, _)
AppendedFor(location, issue_patterns, k) ==
    IF k > Len(issue_patterns)
    THEN << >>
    ELSE IF re_search(issue_patterns[k], location.content)
    THEN << location >>
    ELSE AppendedFor(location, issue_patterns, k + 1)

\* The outer loop of find_issue_locations over locations[1..n].
RECURSIVE IssueLocations(_, _, _)
IssueLocations(locations, issue_patterns, n) ==
    IF n = 0
    THEN << >>
    ELSE IssueLocations(locations, issue_patterns, n - 1)
             \o AppendedFor(locations[n], issue_patterns, 1)

\* The loops over the locations that parse_diff returned.
IssueLocationsOf(locations, issue_patterns) ==
    IssueLocations(locations, issue_patterns, Len(locations))

\* find_issue_locations: the locations of the diff whose content some
\* pattern finds.
find_issue_locations(text, issue_patterns) ==
    IssueLocationsOf(parse_diff(text), issue_patterns)

extract_extension_function_issues(text) ==
    find_issue_locations(text, extension_function_patterns)

extract_import_issues(text) == find_issue_locations(text, import_patterns)

extract_documentation_issues(text) ==
    find_issue_locations(text, documentation_patterns)

extract_swift_issues(text) == find_issue_locations(text, swift_patterns)

\* The keys of a dict built from the file_path of each location, in the
\* order of insertion.
RECURSIVE FilePaths(_)
FilePaths(locations) ==
    IF locations = << >>
    THEN << >>
    ELSE LET front == FilePaths(SubSeq(locations, 1, Len(locations) - 1))
             path  == locations[Len(locations)].file_path
         IN  IF \E i \in 1..Len(front) : front[i] = path
             THEN front
             ELSE Append(front, path)

\* The locations of one file, in diff order.
LocationsOf(locations, path) ==
    LET Test(location) == location.file_path = path
    IN  SelectSeq(locations, Test)

\* get_file_changes: the locations of the diff grouped by file path.
get_file_changes(text) ==
    LET locations == parse_diff(text)
        paths == FilePaths(locations)
    IN  [i \in 1..Len(paths) |->
            [file_path |-> paths[i], changes |-> LocationsOf(locations, paths[i])]]

(***************************************************************************)
(* services/platform_detection_service.py                                  *)
(***************************************************************************)
android_repo_patterns ==
    << <<"a", "n", "d", "r", "o", "i", "d">>,
       <<"c", "o", "n", "s", "u", "m", "e", "r", "-", "a", "n", "d", "r", "o", "i", "d">>,
       <<"p", "r", "o", "v", "i", "d", "e", "r", "-", "a", "n", "d", "r", "o", "i", "d">> >>

ios_repo_patterns ==
    << <<"i", "o", "s">>,
       <<"c", "o", "n", "s", "u", "m", "e", "r", "-", "i", "o", "s">>,
       <<"p", "r", "o", "v", "i", "d", "e", "r", "-", "i", "o", "s">> >>

backend_repo_patterns ==
    << <<"s", "e", "r", "v", "i", "c", "e">>,
       <<"a", "p", "i">>,
       <<"b", "a", "c", "k", "e", "n", "d">>,
       <<"s", "e", "r", "v", "e", "r">>,
       <<"g", "a", "t", "e", "w", "a", "y">>,
       <<"a", "u", "t", "h">>,
       <<"b", "i", "l", "l", "i", "n", "g">>,
       <<"p", "a", "y", "m", "e", "n", "t">>,
       <<"c", "o", "m", "m", "u", "n", "i", "c", "a", "t", "i", "o", "n">>,
       <<"a", "p", "p", "o", "i", "n", "t", "m", "e", "n", "t">>,
       <<"c", "o", "n", "s", "u", "l", "t", "a", "t", "i", "o", "n">>,
       <<"s", "c", "h", "e", "d", "u", "l", "e", "r">> >>

\* any(pattern in text for pattern in repo_patterns)
AnyIn(repo_patterns, text) ==
    \E i \in 1..Len(repo_patterns) : In(repo_patterns[i], text)

\* detect_platform(repository), called without file changes.
detect_platform(repository) ==
    IF AnyIn(android_repo_patterns, lower(repository)) THEN "android"
    ELSE IF AnyIn(ios_repo_patterns, lower(repository)) THEN "ios"
    ELSE IF AnyIn(backend_repo_patterns, lower(repository)) THEN "backend"
    ELSE "unknown"

(***************************************************************************)
(* mcp_server/tools/enhanced_review_tool.py.  The content of a prepared    *)
(* comment is a fixed message; the model keeps its first line.             *)
(***************************************************************************)
\* A comment prepared for posting.
PreparedComment(file_path, line_number, content, severity) ==
    [file_path |-> file_path, line_number |-> line_number,
     content |-> content, severity |-> severity, is_summary |-> FALSE]

\* text.endswith(lit)
EndsWith(text, lit) ==
    /\ Len(text) >= Len(lit)
    /\ SubSeq(text, Len(text) - Len(lit) + 1, Len(text)) = lit

\* The comment of one Swift issue, if any.
SwiftComment(issue) ==
    IF In(<<"!">>, issue.content) /\ EndsWith(strip(issue.content), <<"!">>)
    THEN << PreparedComment(issue.file_path, issue.line_number,
                            <<"*", "*", "P", "0", " ", "I", "s", "s", "u", "e", ":", "*", "*", " ", "F", "o", "r", "c", "e", " ", "u", "n", "w", "r", "a", "p", "p", "i", "n", "g", " ", "d", "e", "t", "e", "c", "t", "e", "d">>, "P0") >>
    ELSE IF In(<<"p", "r", "i", "n", "t", "(">>, issue.content) \/ In(<<"N", "S", "L", "o", "g", "(">>, issue.content)
    THEN << PreparedComment(issue.file_path, issue.line_number,
                            <<"*", "*", "P", "1", " ", "I", "s", "s", "u", "e", ":", "*", "*", " ", "D", "e", "b", "u", "g", " ", "p", "r", "i", "n", "t", " ", "s", "t", "a", "t", "e", "m", "e", "n", "t">>, "P1") >>
    ELSE IF In(<<"a", "s", "!">>, issue.content)
    THEN << PreparedComment(issue.file_path, issue.line_number,
                            <<"*", "*", "P", "1", " ", "I", "s", "s", "u", "e", ":", "*", "*", " ", "F", "o", "r", "c", "e", " ", "c", "a", "s", "t", "i", "n", "g", " ", "d", "e", "t", "e", "c", "t", "e", "d">>, "P1") >>
    ELSE << >>

\* The comment of one extension function issue, if any.
ExtensionComment(issue) ==
    IF In(<<"i", "s", "N", "o", "t", "N", "u", "l", "l", "O", "r", "E", "m", "p", "t", "y">>, issue.content)
    THEN << PreparedComment(issue.file_path, issue.line_number,
                            <<"*", "*", "P", "0", " ", "I", "s", "s", "u", "e", ":", "*", "*", " ", "R", "e", "d", "u", "n", "d", "a", "n", "t", " ", "e", "x", "t", "e", "n", "s", "i", "o", "n", " ", "f", "u", "n", "c", "t", "i", "o", "n">>, "P0") >>
    ELSE IF In(<<"i", "s", "E", "m", "p", "t", "y">>, issue.content) /\ In(<<"i", "f">>, issue.content)
    THEN << PreparedComment(issue.file_path, issue.line_number,
                            <<"*", "*", "P", "1", " ", "I", "s", "s", "u", "e", ":", "*", "*", " ", "E", "m", "p", "t", "y", " ", "s", "t", "r", "i", "n", "g", " ", "c", "h", "e", "c", "k">>, "P1") >>
    ELSE << >>

\* The import issues grouped by file; a file with more than 3 of them
\* gets one comment, at the line of its first import issue.
ImportComment(import_issues, path) ==
    LET issues == LocationsOf(import_issues, path)
    IN  IF Len(issues) > 3
        THEN << PreparedComment(path, issues[1].line_number,
                                <<"*", "*", "P", "1", " ", "I", "s", "s", "u", "e", ":", "*", "*", " ", "I", "m", "p", "o", "r", "t", " ", "c", "l", "e", "a", "n", "u", "p", " ", "n", "e", "e", "d", "e", "d">>, "P1") >>
        ELSE << >>

\* change declares a function, a class or a struct.
Declares(change) ==
    /\ change.is_addition
    /\ \/ In(<<"f", "u", "n", "c", " ">>, change.content)
       \/ In(<<"c", "l", "a", "s", "s", " ">>, change.content)
       \/ In(<<"s", "t", "r", "u", "c", "t", " ">>, change.content)

\* Some change of the file carries a comment.
Commented(changes) ==
    \E i \in 1..Len(changes) :
        In(<<"/", "/">>, changes[i].content) \/ In(<<"/", "*">>, changes[i].content)

\* The comment of one file without documentation: at its first
\* declaration, when no change of the file carries a comment.
DocumentationComment(file) ==
    LET declaring == { i \in 1..Len(file.changes) : Declares(file.changes[i]) }
    IN  IF declaring # {} /\ ~Commented(file.changes)
        THEN LET first == CHOOSE i \in declaring : \A j \in declaring : i <= j
             IN  << PreparedComment(file.file_path, file.changes[first].line_number,
                                    <<"*", "*", "P", "1", " ", "I", "s", "s", "u", "e", ":", "*", "*", " ", "M", "i", "s", "s", "i", "n", "g", " ", "d", "o", "c", "u", "m", "e", "n", "t", "a", "t", "i", "o", "n">>, "P1") >>
        ELSE << >>

\* The comments of the four passes over the issues.
SwiftComments(swift_issues) ==
    Concat([i \in 1..Len(swift_issues) |-> SwiftComment(swift_issues[i])])

ExtensionComments(extension_issues) ==
    Concat([i \in 1..Len(extension_issues) |-> ExtensionComment(extension_issues[i])])

ImportFileComments(import_issues, import_files) ==
    Concat([i \in 1..Len(import_files) |-> ImportComment(import_issues, import_files[i])])

ImportComments(import_issues) ==
    ImportFileComments(import_issues, FilePaths(import_issues))

DocumentationComments(file_changes) ==
    Concat([i \in 1..Len(file_changes) |-> DocumentationComment(file_changes[i])])

\* The comments that review_pr_with_line_comments prepares from the
\* sanitized diff: Swift issues, extension functions, imports,
\* documentation.
PreparedComments(sanitized_diff) ==
    SwiftComments(extract_swift_issues(sanitized_diff))
    \o ExtensionComments(extract_extension_function_issues(sanitized_diff))
    \o ImportComments(extract_import_issues(sanitized_diff))
    \o (IF extract_documentation_issues(sanitized_diff) # << >>
        THEN << >>
        ELSE DocumentationComments(get_file_changes(sanitized_diff)))

\* review_pr_with_line_comments once the diff is sanitized.
LineComments(repository, sanitized_diff) ==
    IF ParseRaises(sanitized_diff, TRUE)
    THEN ErrorResult("Failed to review PR")
    ELSE [kind |-> "success",
          platform |-> detect_platform(repository),
          comments |-> PreparedComments(sanitized_diff)]

\* review_pr_with_line_comments: details is what get_pr_details did,
\* fetched what get_pr_diff returned.
review_pr_with_line_comments(repository, details, fetched) ==
    IF details = Raised \/ fetched = Raised
    THEN ErrorResult("Failed to review PR")
    ELSE LineComments(repository, sanitize_diff(fetched))

\* str(n) for a natural number.
RECURSIVE str(_)
str(n) ==
    LET digits == <<"0", "1", "2", "3", "4", "5", "6", "7", "8", "9">>
    IN  IF n < 10 THEN << digits[n + 1] >>
        ELSE str(n \div 10) \o << digits[(n % 10) + 1] >>

\* The issue that analyze_diff_for_issues reports for an extension
\* function issue, if any.
ExtensionIssue(issue) ==
    IF In(<<"i", "s", "N", "o", "t", "N", "u", "l", "l", "O", "r", "E", "m", "p", "t", "y">>, issue.content)
    THEN << [type |-> "Extension Function", severity |-> "P0",
             file_path |-> issue.file_path, line_number |-> issue.line_number,
             content |-> issue.content] >>
    ELSE << >>

\* The issue that analyze_diff_for_issues reports for the import issues
\* of one file, if any.
ImportIssue(import_issues, path) ==
    LET file_issues == LocationsOf(import_issues, path)
    IN  IF Len(file_issues) > 3
        THEN << [type |-> "Import Cleanup", severity |-> "P1",
                 file_path |-> path, line_number |-> file_issues[1].line_number,
                 content |-> str(Len(file_issues)) \o <<" ", "i", "m", "p", "o", "r", "t", " ", "c", "h", "a", "n", "g", "e", "s">>] >>
        ELSE << >>

\* The issues of the two passes of analyze_diff_for_issues.
ExtensionIssues(extension_issues) ==
    Concat([i \in 1..Len(extension_issues) |-> ExtensionIssue(extension_issues[i])])

ImportFileIssues(import_issues, import_files) ==
    Concat([i \in 1..Len(import_files) |-> ImportIssue(import_issues, import_files[i])])

ImportIssues(import_issues) ==
    ImportFileIssues(import_issues, FilePaths(import_issues))

\* analyze_diff_for_issues once the diff is sanitized.
Analyzed(sanitized_diff) ==
    IF ParseRaises(sanitized_diff, TRUE)
    THEN ErrorResult("Failed to analyze diff")
    ELSE [kind |-> "success",
          issues |->
              ExtensionIssues(extract_extension_function_issues(sanitized_diff))
              \o ImportIssues(extract_import_issues(sanitized_diff)),
          file_changes |-> FilePaths(parse_diff(sanitized_diff))]

\* analyze_diff_for_issues: fetched is what get_pr_diff returned.
analyze_diff_for_issues(fetched) ==
    IF fetched = Raised
    THEN ErrorResult("Failed to analyze diff")
    ELSE Analyzed(sanitize_diff(fetched))

(***************************************************************************)
(* services/matching_service.py.  fuzz.ratio is fuzzywuzzy's, computed by  *)
(* difflib.SequenceMatcher: twice the size of the matching blocks over the *)
(* sum of the lengths, as a rounded percentage.                            *)
(***************************************************************************)
threshold == 80

\* The blocks a[i..i+k-1] = b[j..j+k-1] as << i, j, k >>.
Blocks(a, b) ==
    { x \in (1..Len(a)) \X (1..Len(b)) \X (1..Len(a)) :
         /\ x[1] + x[3] - 1 <= Len(a)
         /\ x[2] + x[3] - 1 <= Len(b)
         /\ SubSeq(a, x[1], x[1] + x[3] - 1) = SubSeq(b, x[2], x[2] + x[3] - 1) }

\* find_longest_match: the longest block; of those the one that starts
\* earliest in a, then earliest in b.
LongestMatch(a, b) ==
    CHOOSE x \in Blocks(a, b) :
        \A y \in Blocks(a, b) :
            \/ y[3] < x[3]
            \/ y[3] = x[3] /\ x[1] < y[1]
            \/ y[3] = x[3] /\ x[1] = y[1] /\ x[2] <= y[2]

\* The total size of the matching blocks: the longest match, then the
\* matching blocks to its left and to its right.
RECURSIVE MatchingSize(_, _)
MatchingSize(a, b) ==
    IF Blocks(a, b) = {}
    THEN 0
    ELSE LET x == LongestMatch(a, b)
         IN  x[3]
             + MatchingSize(SubSeq(a, 1, x[1] - 1), SubSeq(b, 1, x[2] - 1))
             + MatchingSize(SubSeq(a, x[1] + x[3], Len(a)),
                            SubSeq(b, x[2] + x[3], Len(b)))

\* int(round(100 * 2.0 * M / T)), rounding half to even; 0 when a string
\* is empty.
fuzz_ratio(a, b) ==
    IF a = << >> \/ b = << >>
    THEN 0
    ELSE LET n == 200 * MatchingSize(a, b)
             T == Len(a) + Len(b)
             q == n \div T
             r == n % T
         IN  IF 2 * r > T \/ (2 * r = T /\ q % 2 = 1) THEN q + 1 ELSE q

\* _find_exact_matches: the identifier is the title, the id, or a part of
\* the title, ignoring case.
find_exact_matches(identifier, prs) ==
    LET Test(pr) ==
            \/ lower(identifier) = lower(pr.title)
            \/ lower(identifier) = lower(pr.id)
            \/ In(lower(identifier), lower(pr.title))
    IN  SelectSeq(prs, Test)

\* The PRs of prs[1..n] in descending order of score, equal scores in
\* the order of prs (sorted is stable).
RECURSIVE SortedByScore(_, _, _)
SortedByScore(prs, identifier, n) ==
    IF n = 0
    THEN << >>
    ELSE LET front == SortedByScore(prs, identifier, n - 1)
             Score(pr) == fuzz_ratio(lower(identifier), lower(pr.title))
             k == Cardinality({ i \in 1..Len(front) :
                                   Score(front[i]) >= Score(prs[n]) })
         IN  SubSeq(front, 1, k) \o << prs[n] >> \o SubSeq(front, k + 1, Len(front))

\* _find_fuzzy_matches: the PRs whose title scores at least the
\* threshold, best first.
find_fuzzy_matches(identifier, prs) ==
    LET Test(pr) == fuzz_ratio(lower(identifier), lower(pr.title)) >= threshold
        matches == SelectSeq(prs, Test)
    IN  SortedByScore(matches, identifier, Len(matches))

\* find_multiple_prs: the exact matches if there are any, else the fuzzy
\* matches.
find_multiple_prs(identifier, prs) ==
    IF find_exact_matches(identifier, prs) # << >>
    THEN find_exact_matches(identifier, prs)
    ELSE find_fuzzy_matches(identifier, prs)

\* sanitize_pr_diff that returns the diff as fetched.
sanitize_pr_diff_Unsanitized(fetched) == fetched

\* SanitizationService.sanitize_pr_diff: sanitize_diff of the fetched diff.
sanitize_pr_diff(fetched) == sanitize_diff(fetched)

(***************************************************************************)
(* mcp_server/tools/review_pr_tool.py                                      *)
(***************************************************************************)
\* The option shown for a PR when several match.
PrOption(pr) == [id |-> pr.id, title |-> pr.title, repository |-> pr.repository]

\* review_pull_request once the PRs are found.
ReviewFound(multiple_prs, fetched) ==
    IF multiple_prs = << >>
    THEN ErrorResult("No PR found")
    ELSE IF Len(multiple_prs) > 1
    THEN [kind |-> "multiple_matches",
          options |-> [i \in 1..Len(multiple_prs) |-> PrOption(multiple_prs[i])]]
    ELSE IF fetched = Raised
    THEN ErrorResult("Failed to prepare PR for review")
    ELSE [kind |-> "success",
          pr_id |-> multiple_prs[1].id,
          title |-> multiple_prs[1].title,
          repository |-> multiple_prs[1].repository,
          sanitized_diff |-> sanitize_pr_diff(fetched),
          platform_detected |-> detect_platform(multiple_prs[1].repository)]

\* review_pull_request: listed is what get_all_pull_requests did, fetched
\* what get_pr_diff returned for the PR.
review_pull_request(pr_identifier, listed, fetched) ==
    IF listed.raised
    THEN ErrorResult("Failed to prepare PR for review")
    ELSE ReviewFound(find_multiple_prs(pr_identifier, listed.prs), fetched)

\* review_and_preview_comments (integrated_review_tool.py) calls
\* find_multiple_prs(prs, pr_identifier) without awaiting it: the result is
\* a coroutine object, which is true and has no len(), so the tool ends in
\* its except clause for every identifier.
review_and_preview_comments(pr_identifier, listed) ==
    ErrorResult("Failed to prepare PR for review")

(***************************************************************************)
(* services/bitbucket_service.py as the tools see it.  A call returns or   *)
(* raises; env records what each call of one request does:                 *)
(*   listed    get_all_pull_requests: [raised, prs]                        *)
(*   comments  get_pr_comments of PR n: [raised, values]                   *)
(*   fetched   get_pr_diff: the diff text or Raised                        *)
(*   details   get_pr_details: PullRequestDetails or Raised                *)
(* A call in the log of a request is [call, pr] with what was sent or, for *)
(* get_pr_comments, what was returned.                                     *)
(***************************************************************************)
AiReviewMarker == <<"[", "A", "I", " ", "-", " ", "R", "e", "v", "i", "e", "w", "]">>

\* The text of a severity level.
SeverityText(severity) ==
    CASE severity = "P0" -> <<"P", "0">>
      [] severity = "P1" -> <<"P", "1">>
      [] severity = "P2" -> <<"P", "2">>
      [] severity = "SUMMARY" -> <<"S", "U", "M", "M", "A", "R", "Y">>

\* models/comment.py: the values of SeverityLevel.
SeverityLevel == { "P0", "P1", "P2", "SUMMARY" }

\* models/pull_request.py: the attributes of a PullRequest.
PullRequest_attributes ==
    { "id", "title", "description", "author", "status", "repository",
      "created_at", "updated_at", "source_branch", "destination_branch" }

\* The call post_comment(pr_id, repository, comment, line_number, file_path)
\* made for the comment number of of the request.
PostCommentCall(pr, comment, line_number, file_path, of) ==
    [call |-> "post_comment", pr |-> pr, comment |-> comment,
     line_number |-> line_number, file_path |-> file_path, of |-> of]

\* The call get_pr_comments for a PR with what it did: fetch is
\* [raised, values].
GetPrCommentsCall(pr, fetch) ==
    [call |-> "get_pr_comments", pr |-> pr, raised |-> fetch.raised,
     values |-> fetch.values]

\* Any other call for a PR.
Call(name, pr) == [call |-> name, pr |-> pr]

(***************************************************************************)
(* mcp_server/tools/post_comments_tool.py: post_review_comments            *)
(***************************************************************************)
\* Skipped without the test for P2.
Skipped_PostsP2(comment) == comment.is_summary \/ comment.severity = "SUMMARY"

\* The comment is skipped: P2, or a summary.
Skipped(comment) ==
    \/ comment.severity = "P2"
    \/ comment.is_summary
    \/ comment.severity = "SUMMARY"

\* The comment as posted: prefixed unless it carries the prefix already.
formatted_comment(comment) ==
    IF StartsWith(comment.content, 1, AiReviewMarker)
    THEN comment.content
    ELSE AiReviewMarker \o <<" ">> \o SeverityText(comment.severity)
             \o <<":", " ">> \o comment.content

\* comment.content[:100] + "..." if it is longer than 100, else the content
Shortened(content) ==
    IF Len(content) > 100
    THEN SubSeq(content, 1, 100) \o <<".", ".", ".">>
    ELSE content

\* The loop over the comments from comment i on.  outcomes[i] is what
\* post_comment does for comment i: "ok" (it returns True) or "raises".
\* st is [posted_comments, failed_comments, calls, stored]: stored are the
\* comments that Bitbucket accepted.
RECURSIVE PostLoop(_, _, _, _, _)
PostLoop(pr, comments, outcomes, i, st) ==
    IF i > Len(comments)
    THEN st
    ELSE IF Skipped(comments[i])
    THEN PostLoop(pr, comments, outcomes, i + 1, st)
    ELSE LET comment == comments[i]
             called == [st EXCEPT !.calls =
                           Append(@, PostCommentCall(pr, formatted_comment(comment),
                                                     comment.line_number,
                                                     comment.file_path, i))]
         IN  IF outcomes[i] = "ok"
             THEN PostLoop(pr, comments, outcomes, i + 1,
                      [called EXCEPT
                          !.posted_comments =
                              Append(@, [severity |-> comment.severity,
                                         content |-> Shortened(comment.content),
                                         line_number |-> comment.line_number]),
                          !.stored = Append(@, formatted_comment(comment))])
             ELSE PostLoop(pr, comments, outcomes, i + 1,
                      [called EXCEPT
                          !.failed_comments =
                              Append(@, [severity |-> comment.severity,
                                         error |-> "Failed to post comment"])])

\* post_review_comments with confirmation true and valid comments.
PostAll(pr, comments, outcomes) ==
    PostLoop(pr, comments, outcomes, 1,
             [posted_comments |-> << >>, failed_comments |-> << >>,
              calls |-> << >>, stored |-> << >>])

\* ConfirmationMissing that lets every call through.
ConfirmationMissing_Never(confirmation) == FALSE

\* if not confirmation
ConfirmationMissing(confirmation) == ~confirmation

\* post_review_comments: the response, the calls made and the comments
\* stored by Bitbucket.
post_review_comments(pr, comments, confirmation, outcomes) ==
    IF ConfirmationMissing(confirmation)
    THEN [response |-> ErrorResult("Confirmation required"),
          calls |-> << >>, stored |-> << >>]
    ELSE IF \E i \in 1..Len(comments) : comments[i].severity \notin SeverityLevel
    THEN [response |-> ErrorResult("Failed to post comments"),
          calls |-> << >>, stored |-> << >>]
    ELSE LET st == PostAll(pr, comments, outcomes)
         IN  [response |->
                  [kind |-> "result",
                   success |-> Len(st.failed_comments) = 0,
                   comments_posted |-> Len(st.posted_comments),
                   comments_failed |-> Len(st.failed_comments),
                   posted_comments |-> st.posted_comments,
                   failed_comments |-> st.failed_comments,
                   total_comments_attempted |-> Len(comments)],
              calls |-> st.calls,
              stored |-> st.stored]

(***************************************************************************)
(* mcp_server/tools/enhanced_auto_review_tool.py                           *)
(***************************************************************************)
\* _is_pr_already_reviewed that takes a PR whose comments cannot be
\* fetched as not reviewed.
is_pr_already_reviewed_NotOnFailure(fetch) ==
    /\ ~fetch.raised
    /\ \E i \in 1..Len(fetch.values) : In(AiReviewMarker, fetch.values[i])

\* _is_pr_already_reviewed that does not look at the comments.
is_pr_already_reviewed_Never(fetch) == fetch.raised

\* _is_pr_already_reviewed: a fetched comment contains the marker; true
\* when the comments cannot be fetched.
is_pr_already_reviewed(fetch) ==
    \/ fetch.raised
    \/ \E i \in 1..Len(fetch.values) : In(AiReviewMarker, fetch.values[i])

\* _call_claude_api returns no comments.
call_claude_api == << >>

\* The comments that the posting loop of _review_and_comment_pr sends:
\* all but those of severity P2 and those flagged as summary.
AutoReviewPosted(comments) ==
    LET Test(comment) == comment.severity # "P2" /\ ~comment.is_summary
    IN  SelectSeq(comments, Test)

\* _review_and_comment_pr: [result, calls].  pr_details is a PullRequest,
\* which has no get, so pr_details.get raises and the function returns an
\* error result before it asks for comments or posts any.
review_and_comment_pr(pr, env) ==
    IF env.fetched = Raised \/ ParseRaises(env.fetched, FALSE)
    THEN [result |-> ErrorResult("Failed to review and comment on PR"),
          calls |-> << Call("get_pr_diff", pr) >>]
    ELSE IF env.details = Raised \/ "get" \notin PullRequest_attributes
    THEN [result |-> ErrorResult("Failed to review and comment on PR"),
          calls |-> << Call("get_pr_diff", pr), Call("get_pr_details", pr) >>]
    ELSE LET comments == AutoReviewPosted(call_claude_api)
         IN  [result |-> [kind |-> "success",
                          comments_posted |-> Len(comments),
                          issues_found |-> Len(call_claude_api)],
              calls |-> << Call("get_pr_diff", pr), Call("get_pr_details", pr) >>
                        \o [i \in 1..Len(comments) |->
                               PostCommentCall(pr, AiReviewMarker \o <<" ">>
                                                      \o comments[i].content,
                                               comments[i].line_number,
                                               comments[i].file_path, i)]]

\* review_result.get(key, 0)
ResultGet(result, key) ==
    IF result.kind = "error" THEN 0
    ELSE IF key = "comments_posted" THEN result.comments_posted
    ELSE result.issues_found

\* The index of the PR in the list of Bitbucket.
PrIndex(prs, pr) == CHOOSE n \in 1..Len(prs) : prs[n].id = pr.id

\* The entry and the calls of a PR that was reviewed with the result
\* review of _review_and_comment_pr.
Reviewed(pr, n, env, review) ==
    [entry |-> [pr_id |-> pr.id, status |-> "REVIEWED",
                comments_posted |-> ResultGet(review.result, "comments_posted"),
                issues_found |-> ResultGet(review.result, "issues_found")],
     calls |-> << GetPrCommentsCall(n, env.comments[n]) >> \o review.calls]

\* One PR of an auto-review: skipped if already reviewed, else reviewed.
\* The result is [entry, calls].
ReviewOne(pr, n, env) ==
    IF is_pr_already_reviewed(env.comments[n])
    THEN [entry |-> [pr_id |-> pr.id, status |-> "SKIPPED"],
          calls |-> << GetPrCommentsCall(n, env.comments[n]) >>]
    ELSE Reviewed(pr, n, env, review_and_comment_pr(n, env))

\* The response for the single PR found, given its entry and calls.
SinglePr(one) ==
    [response |-> [kind |-> "success", result |-> one.entry],
     calls |-> << Call("get_all_pull_requests", 0) >> \o one.calls]

\* _review_specific_pr_implementation that reviews the best match when
\* several PRs are found.
SpecificPr_FirstMatch(multiple_prs, env) ==
    IF multiple_prs = << >>
    THEN [response |-> ErrorResult("No PR found"),
          calls |-> << Call("get_all_pull_requests", 0) >>]
    ELSE SinglePr(ReviewOne(multiple_prs[1],
                            PrIndex(env.listed.prs, multiple_prs[1]), env))

\* _review_specific_pr_implementation once the PRs are found.
SpecificPr(multiple_prs, env) ==
    IF multiple_prs = << >>
    THEN [response |-> ErrorResult("No PR found"),
          calls |-> << Call("get_all_pull_requests", 0) >>]
    ELSE IF Len(multiple_prs) > 1
    THEN [response |->
              [kind |-> "multiple_matches",
               options |-> [i \in 1..Len(multiple_prs) |-> PrOption(multiple_prs[i])]],
          calls |-> << Call("get_all_pull_requests", 0) >>]
    ELSE SinglePr(ReviewOne(multiple_prs[1],
                            PrIndex(env.listed.prs, multiple_prs[1]), env))

\* _review_specific_pr_implementation: [response, calls].
review_specific_pr(pr_identifier, env) ==
    IF env.listed.raised
    THEN [response |-> ErrorResult("Failed to review PR"),
          calls |-> << Call("get_all_pull_requests", 0) >>]
    ELSE SpecificPr(find_multiple_prs(pr_identifier, env.listed.prs), env)

\* ReviewStep of a loop that is left after the first PR that was not
\* skipped.
ReviewStep_Break(front, one) ==
    IF \E j \in 1..Len(front.results) : front.results[j].status # "SKIPPED"
    THEN front
    ELSE [results |-> Append(front.results, one.entry),
          calls |-> front.calls \o one.calls]

\* One pass of the loop: the entry and the calls of one PR after those
\* of the PRs in front of it.
ReviewStep(front, one) ==
    [results |-> Append(front.results, one.entry),
     calls |-> front.calls \o one.calls]

\* The loop of _review_all_prs_implementation over open_prs[1..n]:
\* [results, calls].
RECURSIVE ReviewLoop(_, _, _)
ReviewLoop(open_prs, n, env) ==
    IF n = 0
    THEN [results |-> << >>, calls |-> << >>]
    ELSE ReviewStep(ReviewLoop(open_prs, n - 1, env),
                    ReviewOne(open_prs[n], PrIndex(env.listed.prs, open_prs[n]), env))

\* The number of results with the status.
CountStatus(results, status) ==
    Cardinality({ i \in 1..Len(results) : results[i].status = status })

\* open_prs: the PRs whose status is OPEN.
OpenPrs(all_prs) ==
    LET IsOpen(pr) == pr.status = "OPEN"
    IN  SelectSeq(all_prs, IsOpen)

\* The response after the loop over the open PRs.
AutoReviewCompleted(open_prs, loop) ==
    [response |->
         [kind |-> "success",
          prs_reviewed |-> CountStatus(loop.results, "REVIEWED"),
          prs_skipped |-> CountStatus(loop.results, "SKIPPED"),
          total_open_prs |-> Len(open_prs),
          results |-> loop.results],
     calls |-> << Call("get_all_pull_requests", 0) >> \o loop.calls]

\* _review_all_prs_implementation once the open PRs are known.
OpenPrsReviewed(open_prs, env) ==
    IF open_prs = << >>
    THEN [response |-> [kind |-> "success", prs_reviewed |-> 0, prs_skipped |-> 0],
          calls |-> << Call("get_all_pull_requests", 0) >>]
    ELSE AutoReviewCompleted(open_prs, ReviewLoop(open_prs, Len(open_prs), env))

\* _review_all_prs_implementation: [response, calls].
review_all_prs(env) ==
    IF env.listed.raised
    THEN [response |-> ErrorResult("Failed to review all PRs"),
          calls |-> << Call("get_all_pull_requests", 0) >>]
    ELSE OpenPrsReviewed(OpenPrs(env.listed.prs), env)

(***************************************************************************)
(* Inputs                                                                  *)
(***************************************************************************)
SeqsUpTo(S, n) == UNION { [1..m -> S] : m \in 0..n }

MaxLines == 4
MaxFrags == 3
MaxReviewLines == 4

FileHeaderXY == <<"d", "i", "f", "f", " ", "-", "-", "g", "i", "t", " ", "a", "/", "x", " ", "b", "/", "y">>
HunkHeader12 == <<"@", "@", " ", "-", "7", " ", "+", "1", "2", " ", "@", "@">>
HunkHeader0  == <<"@", "@", " ", "-", "0", ",", "0", " ", "+", "0", ",", "0", " ", "@", "@">>
HunkHeader1  == <<"@", "@", " ", "-", "1", ",", "3", " ", "+", "1", ",", "4", " ", "@", "@">>

\* Lines of a diff: a file header, hunk headers, a context line, an
\* addition, a removal and a line that is none of these.
DiffLines ==
    { FileHeaderXY, HunkHeader12, HunkHeader0,
      <<" ", "a">>, <<"+", "b">>, <<"-", "o", "l", "d">>, << >> }

\* One file, one hunk @@ -1,3 +1,4 @@ with lines ' a', '+b', ' c', '-old', ' d'.
ExampleDiff ==
    Join(<< FileHeaderXY, HunkHeader1, <<" ", "a">>, <<"+", "b">>,
            <<" ", "c">>, <<"-", "o", "l", "d">>, <<" ", "d">> >>)

\* Two hunks of one file, then additions of a second file before and
\* after its first hunk.
TwoFileDiff ==
    Join(<< FileHeaderXY, HunkHeader12, <<"+", "b">>, <<" ", "a">>,
            <<"-", "o", "l", "d">>, <<"+", "b">>, HunkHeader1, <<"+", "b">>,
            <<"d", "i", "f", "f", " ", "-", "-", "g", "i", "t", " ", "a", "/", "z", " ", "b", "/", "z">>, <<"+", "b">>, HunkHeader12, <<" ", "a">>, <<"+", "b">> >>)

DiffInputs ==
    { Join(ls) : ls \in SeqsUpTo(DiffLines, MaxLines) }
        \cup { ExampleDiff, TwoFileDiff }

\* Pieces of text around credentials: rule prefixes, values, quotes, a
\* newline, a URL with a password, an API key.
Fragments ==
    { <<"p", "a", "s", "s", "w", "o", "r", "d", ":", " ", "\"">>,
      <<"a", "b", "c", "1", "2", "3">>,
      <<"\"">>,
      <<"\n">>,
      <<"K", "E", "Y", "=", "'">>,
      <<"A", "K", "I", "A", "0", "1", "2", "3", "4", "5", "6", "7", "8", "9", "A", "B", "C", "D", "E", "F">>,
      <<"m", "o", "n", "g", "o", "d", "b", ":", "/", "/", "u", ":">>,
      <<"@">>,
      <<"x", "o", "x", "b", "-", "1">>,
      <<"'">> }

\* password: "abc123"
ExamplePassword == Concat(<< <<"p", "a", "s", "s", "w", "o", "r", "d", ":", " ", "\"">>, <<"a", "b", "c", "1", "2", "3">>, <<"\"">> >>)

TextInputs ==
    { Concat(fs) : fs \in SeqsUpTo(Fragments, MaxFrags) } \cup { ExamplePassword }

\* Lines of a diff that carries credentials.
ReviewLines ==
    { FileHeaderXY, HunkHeader1,
      <<"+", "k", "e", "y", " ", "=", " ", "\"">>,
      <<"+", "x", "\"">>,
      <<" ", "a">> }

ReviewInputs == { Join(ls) : ls \in SeqsUpTo(ReviewLines, MaxReviewLines) }

\* Paths of files: 'x', 'y', and 'c' in the directory 'd b'.
Paths == { <<"x">>, <<"y">>, <<"d", " ", "b", "/", "c">> }

\* 'diff --git a' A '/' P ' b' B '/' Q
HeaderLine(A, P, B, Q) ==
    <<"d", "i", "f", "f", " ", "-", "-", "g", "i", "t", " ", "a">> \o A \o <<"/">> \o P
        \o <<" ", "b">> \o B \o <<"/">> \o Q

\* File headers as git writes them, and with [REDACTED] after a or b as
\* the tolerant pattern of parse_diff also accepts them.
HeaderLines ==
    { HeaderLine(A, P, B, Q) :
        A \in { << >>, <<"[", "R", "E", "D", "A", "C", "T", "E", "D", "]">> },
        B \in { << >>, <<"[", "R", "E", "D", "A", "C", "T", "E", "D", "]">> },
        P \in Paths, Q \in Paths }

MaxFiles == 2

\* Diffs of up to MaxFiles files: a file header, a hunk header and an
\* addition for each.
HeaderInputs ==
    { Join([j \in 1..(3 * Len(hs)) |->
               IF j % 3 = 1 THEN hs[(j + 2) \div 3]
               ELSE IF j % 3 = 2 THEN HunkHeader12
               ELSE <<"+", "b">>]) :
        hs \in SeqsUpTo(HeaderLines, MaxFiles) \ { << >> } }

\* @@ -1 +11...1 @@ with one digit more than int() converts.
LongHunkHeader ==
    <<"@", "@", " ", "-", "1", " ", "+">>
        \o [j \in 1..(int_max_str_digits + 1) |-> "1"]
        \o <<" ", "@", "@">>

\* Inputs that are no well-formed diff: None, the empty text, ExampleDiff
\* cut off after any number of characters, and lines that are no diff lines.
RobustInputs ==
    { None }
        \cup { SubSeq(ExampleDiff, 1, n) : n \in 0..Len(ExampleDiff) }
        \cup { Join(<< <<"+", "b">>, <<"@", "@", " ", "-", "x">>, FileHeaderXY,
                       <<"d", "i", "f", "f", " ", "-", "-", "g", "i", "t">>,
                       <<"+", "b">> >>) }

\* A diff whose hunk header has an overlong line number.
LongHunkDiff == Join(<< FileHeaderXY, LongHunkHeader, <<"+", "b">> >>)

\* Lines of a diff of Swift files.
FooHeader == <<"d", "i", "f", "f", " ", "-", "-", "g", "i", "t", " ", "a", "/", "F", "o", "o", ".", "s", "w", "i", "f", "t", " ", "b", "/", "F", "o", "o", ".", "s", "w", "i", "f", "t">>
BarHeader == <<"d", "i", "f", "f", " ", "-", "-", "g", "i", "t", " ", "a", "/", "B", "a", "r", ".", "s", "w", "i", "f", "t", " ", "b", "/", "B", "a", "r", ".", "s", "w", "i", "f", "t">>
HunkHeader10 == <<"@", "@", " ", "-", "1", " ", "+", "1", "0", " ", "@", "@">>
ForceUnwrap == <<"+", "l", "e", "t", " ", "x", " ", "=", " ", "y", "!">>

SwiftLines == { FooHeader, BarHeader, HunkHeader10, ForceUnwrap, <<"+", "b">> }

\* One location: Foo.swift, line 10, 'let x = y!'.
FooDiff == Join(<< FooHeader, HunkHeader10, ForceUnwrap >>)

MaxSwiftLines == 3

SwiftInputs == { Join(ls) : ls \in SeqsUpTo(SwiftLines, MaxSwiftLines) } \cup { None }

\* Lines of the feedback of the reviewing agent: with and without a
\* severity marker, with a file name, a code fence, a line of code.
FeedbackLines ==
    { <<"F", "o", "r", "c", "e", " ", "u", "n", "w", "r", "a", "p", " ", "i", "n", " ", "F", "o", "o", ".", "s", "w", "i", "f", "t">>,
      <<"P", "0", ":", " ", "F", "o", "r", "c", "e", " ", "u", "n", "w", "r", "a", "p", " ", "i", "n", " ", "F", "o", "o", ".", "s", "w", "i", "f", "t">>,
      <<"P", "1", ":", " ", "s", "e", "e", " ", "B", "a", "r", ".", "s", "w", "i", "f", "t">>,
      <<"*", "*", "P", "2", "*", "*", " ", "n", "a", "m", "i", "n", "g">>,
      << backquote, backquote, backquote >>,
      <<"l", "e", "t", " ", "x", " ", "=", " ", "y", "!">> }

MaxFeedbackLines == 2

Feedbacks == { Join(ls) : ls \in SeqsUpTo(FeedbackLines, MaxFeedbackLines) }


\* The open pull requests that Bitbucket lists.
pull_requests ==
    << [id |-> <<"1">>, title |-> <<"F", "i", "x", " ", "l", "o", "g", "i", "n">>, repository |-> <<"i", "o", "s", "-", "a", "p", "p">>,
        status |-> "OPEN"],
       [id |-> <<"2">>, title |-> <<"F", "i", "x", " ", "l", "o", "g", "o", "u", "t">>, repository |-> <<"b", "i", "l", "l", "i", "n", "g">>,
        status |-> "OPEN"] >>

\* What get_all_pull_requests does: it returns the list, with the second
\* PR open or merged, or raises.
Listings == { [raised |-> FALSE, prs |-> pull_requests],
              [raised |-> FALSE,
               prs |-> [pull_requests EXCEPT ![2].status = "MERGED"]],
              [raised |-> TRUE, prs |-> << >>] }

\* Identifiers of a PR: an id, a part of both titles, a title with a
\* typing error, a text close to both titles, an unrelated text.
Identifiers ==
    { <<"1">>, <<"f", "i", "x">>, <<"f", "i", "x", " ", "l", "o", "g", "i", "m">>, <<"f", "i", "x", " ", "l", "o", "g", "o", "n">>, <<"z", "z", "z">> }

\* What get_pr_details does: it returns the PR or raises.
PullRequestDetails == <<"PullRequest">>

Repositories == { <<"i", "o", "s", "-", "a", "p", "p">>, <<"w", "e", "b">> }

\* Lines of a Swift diff with credentials: the secret character Z occurs
\* inside a quoted key, at the end of a quoted key that spans two lines,
\* and in code.
KeyLine == <<"+", "k", "e", "y", " ", "=", " ", "\"", "Z", "\"">>
KeyOpen == <<"+", "k", "e", "y", " ", "=", " ", "\"">>
KeyClose == <<"+", "Z", "\"">>
ExtensionLine == <<"+", "Z", ".", "i", "s", "N", "o", "t", "N", "u", "l", "l", "O", "r", "E", "m", "p", "t", "y", "(", ")">>

AgentLines == { KeyLine, KeyOpen, KeyClose, ExtensionLine }

MaxAgentLines == 3

\* A key that spans two lines, followed by a force unwrap.
TwoLineKeyDiff == Join(<< FooHeader, HunkHeader10, KeyOpen, KeyClose, ForceUnwrap >>)

\* Four imports and a function in Foo.swift, a key and a print in Bar.swift.
ImportDiff ==
    Join(<< FooHeader, HunkHeader10, <<"+", "i", "m", "p", "o", "r", "t", " ", "A">>, <<"+", "i", "m", "p", "o", "r", "t", " ", "B">>,
            <<"+", "i", "m", "p", "o", "r", "t", " ", "U", "I", "K", "i", "t">>, <<"+", "i", "m", "p", "o", "r", "t", " ", "Z">>, <<"+", "f", "u", "n", "c", " ", "f", "(", ")">>,
            BarHeader, HunkHeader10, KeyLine, <<"+", "p", "r", "i", "n", "t", "(", "Z", ")">> >>)

\* The empty diff, a hunk of Foo.swift with up to MaxAgentLines lines, the
\* diff with a key on two lines and the diff with imports.
AgentInputs ==
    { Join(<< FooHeader, HunkHeader10 >> \o ls) :
         ls \in SeqsUpTo(AgentLines, MaxAgentLines) }
        \cup { << >>, TwoLineKeyDiff, ImportDiff }

\* The diff with another secret: every Z is a Q.
Vary(text) == [i \in 1..Len(text) |-> IF text[i] = "Z" THEN "Q" ELSE text[i]]


\* Comments of a review as the agent passes them to post_review_comments:
\* a P0 and a prefixed P1 on a line, a P2, a summary by severity and one by
\* flag, and a comment with a severity that does not exist.
CommentP0 ==
    [content |-> <<"a">>, severity |-> "P0", line_number |-> 10,
     file_path |-> <<"F", "o", "o", ".", "s", "w", "i", "f", "t">>, is_summary |-> FALSE]
CommentP1 ==
    [content |-> AiReviewMarker \o <<" ", "b">>, severity |-> "P1", line_number |-> 11,
     file_path |-> <<"F", "o", "o", ".", "s", "w", "i", "f", "t">>, is_summary |-> FALSE]
CommentP2 ==
    [content |-> <<"c">>, severity |-> "P2", line_number |-> 12,
     file_path |-> <<"F", "o", "o", ".", "s", "w", "i", "f", "t">>, is_summary |-> FALSE]
CommentSummary ==
    [content |-> <<"s">>, severity |-> "SUMMARY", line_number |-> 0,
     file_path |-> << >>, is_summary |-> FALSE]
CommentFlagged ==
    [content |-> <<"t">>, severity |-> "P0", line_number |-> 0,
     file_path |-> << >>, is_summary |-> TRUE]
CommentP3 ==
    [content |-> <<"u">>, severity |-> "P3", line_number |-> 13,
     file_path |-> <<"F", "o", "o", ".", "s", "w", "i", "f", "t">>, is_summary |-> FALSE]

CommentInputs == { CommentP0, CommentP2, CommentSummary, CommentFlagged }

MaxComments == 1

\* Lists of comments: up to MaxComments comments, a review with every kind
\* of comment, and a list with a comment that is not valid.
CommentLists ==
    SeqsUpTo(CommentInputs, MaxComments)
        \cup { << CommentP2, CommentP0, CommentSummary, CommentP1, CommentFlagged >>,
               << CommentP0, CommentP3 >> }

\* What post_comment does for each comment of a list; "ok" for the
\* comments it is not called for.
Outcomes(comments) ==
    { o \in [1..Len(comments) -> { "ok", "raises" }] :
         \A i \in 1..Len(comments) :
             (comments[i].severity \notin SeverityLevel \/ Skipped(comments[i]))
                 => o[i] = "ok" }

\* The comments on the PRs when the server starts: none, or a comment of
\* a person on the first PR.
CommentStores ==
    { << << >>, << >> >>, << << <<"l", "g", "t", "m">> >>, << >> >> }

\* What get_pr_comments does for each PR: it returns the comments or raises.
CommentFetches ==
    { f \in [1..Len(pull_requests) -> { "ok", "raises" }] : TRUE }

\* Identifiers of a PR for the auto-review: the ids, a part of both
\* titles, an unrelated text.
PrIdentifiers == { <<"1">>, <<"2">>, <<"f", "i", "x">>, <<"z", "z", "z">> }

MaxRequests == 2

\* Added lines for the issue extractors: an import that two import
\* patterns find, a force unwrap, a print in capitals, an optional binding
\* that two extension patterns find, a TODO comment that two documentation
\* patterns find, a line no pattern finds.
ExtractLines ==
    { <<"+", "i", "m", "p", "o", "r", "t", " ", "F", "o", "u", "n", "d", "a", "t", "i", "o", "n">>,
      <<"+", "l", "e", "t", " ", "x", " ", "=", " ", "y", "!">>,
      <<"+", "P", "R", "I", "N", "T", "(", "x", ")">>,
      <<"+", "i", "f", " ", "l", "e", "t", " ", "a", " ", "=", " ", "b", ".", "i", "s", "E", "m", "p", "t", "y">>,
      <<"+", "/", "/", " ", "T", "O", "D", "O", " ", "x">>,
      <<"+", "b">> }

MaxExtractLines == 2

ExtractInputs ==
    { Join(<< FooHeader, HunkHeader10 >> \o ls) :
         ls \in SeqsUpTo(ExtractLines, MaxExtractLines) }

\* Pattern lists for find_issue_locations: none, the patterns of two
\* extractors, one pattern twice.
PatternLists ==
    { << >>, swift_patterns \o import_patterns,
      << documentation_patterns[4], documentation_patterns[4] >> }

\* Concurrent calls: NumWorkflows review workflows, each making one of
\* these calls: a function and its text, a diff with a secret or a diff of
\* two files.
NumWorkflows == 2

ConcurrentCalls ==
    { << "sanitize_diff", Join(<< FooHeader, HunkHeader10, KeyLine >>) >>,
      << "parse_diff", TwoFileDiff >>,
      << "parse_original_diff", Join(<< FooHeader, HunkHeader10, KeyLine >>) >> }

(***************************************************************************)
(* State                                                                   *)
(***************************************************************************)
VARIABLES
    diff,               \* the diff text of the request
    pc,                 \* the statement the request is at
    sanitized,          \* sanitize_diff: the text after the patterns applied so far
    pattern_index,      \* the pattern the running loop over self.patterns is at
    replaced,           \* the replacement texts sanitize_diff has written so far
    found_credentials,  \* detect_credentials: the credentials found so far
    parse,              \* parse_diff: lines, i, current_file, ..., locations
    parse_original,     \* parse_original_diff: the same
    request,            \* the tool call the server handled last
    response,           \* what the tool returned
    calls,              \* the calls to bitbucket_service made for that request
    pr_comments,        \* Bitbucket: the raw content of the comments of each PR
    served,             \* the number of tool calls the server has handled
    workflows           \* concurrent calls on one service instance and their local state

tool_vars == << request, response, calls, pr_comments, served, workflows >>

vars == << diff, pc, sanitized, pattern_index, replaced, found_credentials,
           parse, parse_original, request, response, calls, pr_comments, served,
           workflows >>

\* No concurrent calls.
NoWorkflows == [calls |-> << >>, frames |-> << >>]

\* No tool has been called.
NoRequest == [tool |-> "none"]
NoResponse == [kind |-> "none"]

InitWith(inputs, start) ==
    /\ diff \in inputs
    /\ pc = start
    /\ sanitized = << >>
    /\ pattern_index = 1
    /\ replaced = {}
    /\ found_credentials = << >>
    /\ parse = ParseStart(<< >>)
    /\ parse_original = ParseStart(<< >>)
    /\ request = NoRequest
    /\ response = NoResponse
    /\ calls = << >>
    /\ pr_comments = << >>
    /\ served = 0
    /\ workflows = NoWorkflows

(***************************************************************************)
(* sanitize_diff                                                           *)
(***************************************************************************)
\* if diff is None: return ""; otherwise sanitized = diff, before the loop
\* over the patterns
SanitizeDiffCall(next) ==
    /\ pc = "sanitize_diff"
    /\ sanitized' = IF diff = None THEN << >> ELSE diff
    /\ pattern_index' = 1
    /\ pc' = IF diff = None THEN next ELSE "sanitize_diff_loop"
    /\ UNCHANGED << tool_vars, diff, replaced, found_credentials, parse, parse_original >>

\* sanitized = pattern.sub(..., sanitized) for the next pattern
SanitizeDiffPattern ==
    /\ pc = "sanitize_diff_loop"
    /\ pattern_index <= NumPatterns
    /\ LET pattern == patterns[pattern_index]
       IN  /\ sanitized' = Sub(pattern, sanitized)
           /\ replaced' = replaced \cup
                  { [pattern |-> pattern_index,
                     text |-> Replace(pattern, sanitized, m)] :
                        m \in { Matches(pattern, sanitized)[j] :
                                   j \in DOMAIN Matches(pattern, sanitized) } }
    /\ pattern_index' = pattern_index + 1
    /\ UNCHANGED << tool_vars, diff, pc, found_credentials, parse, parse_original >>

\* return sanitized
SanitizeDiffReturn(next) ==
    /\ pc = "sanitize_diff_loop"
    /\ pattern_index > NumPatterns
    /\ pc' = next
    /\ UNCHANGED << tool_vars, diff, sanitized, pattern_index, replaced, found_credentials,
                    parse, parse_original >>

(***************************************************************************)
(* detect_credentials                                                      *)
(***************************************************************************)
DetectCredentialsCall ==
    /\ pc = "detect_credentials"
    /\ found_credentials' = << >>
    /\ pattern_index' = 1
    /\ pc' = "detect_credentials_loop"
    /\ UNCHANGED << tool_vars, diff, sanitized, replaced, parse, parse_original >>

DetectCredentialsPattern ==
    /\ pc = "detect_credentials_loop"
    /\ pattern_index <= NumPatterns
    /\ found_credentials' =
           found_credentials \o Credentials(patterns[pattern_index], diff)
    /\ pattern_index' = pattern_index + 1
    /\ UNCHANGED << tool_vars, diff, pc, sanitized, replaced, parse, parse_original >>

\* detect_credentials(sanitized): the next pattern on the text that
\* sanitize_diff returned
DetectSanitizedPattern ==
    /\ pc = "detect_credentials_loop"
    /\ pattern_index <= NumPatterns
    /\ found_credentials' =
           found_credentials \o Credentials(patterns[pattern_index], sanitized)
    /\ pattern_index' = pattern_index + 1
    /\ UNCHANGED << tool_vars, diff, pc, sanitized, replaced, parse, parse_original >>

DetectCredentialsReturn ==
    /\ pc = "detect_credentials_loop"
    /\ pattern_index > NumPatterns
    /\ pc' = "done"
    /\ UNCHANGED << tool_vars, diff, sanitized, pattern_index, replaced, found_credentials,
                    parse, parse_original >>

(***************************************************************************)
(* parse_diff and parse_original_diff                                      *)
(***************************************************************************)
\* if not diff: return []; otherwise lines = diff.split('\n')
ParseDiffCall(text, empty) ==
    /\ pc = "parse_diff"
    /\ parse' = IF Not(text) THEN ParseStart(<< >>) ELSE ParseStart(Split(text))
    /\ pc' = IF Not(text) THEN empty ELSE "parse_diff_loop"
    /\ UNCHANGED << tool_vars, diff, sanitized, pattern_index, replaced, found_credentials,
                    parse_original >>

ParseDiffLine ==
    /\ pc = "parse_diff_loop"
    /\ ~parse.raised
    /\ parse.i <= Len(parse.lines)
    /\ parse' = ParseLine(parse, TRUE)
    /\ UNCHANGED << tool_vars, diff, pc, sanitized, pattern_index, replaced,
                    found_credentials, parse_original >>

ParseDiffReturn(next) ==
    /\ pc = "parse_diff_loop"
    /\ ~parse.raised
    /\ parse.i > Len(parse.lines)
    /\ pc' = next
    /\ UNCHANGED << tool_vars, diff, sanitized, pattern_index, replaced, found_credentials,
                    parse, parse_original >>

\* int() raised in the loop: the exception leaves parse_diff.
ParseDiffRaise(next) ==
    /\ pc = "parse_diff_loop"
    /\ parse.raised
    /\ pc' = next
    /\ UNCHANGED << tool_vars, diff, sanitized, pattern_index, replaced,
                    found_credentials, parse, parse_original >>

ParseOriginalDiffCall ==
    /\ pc = "parse_original_diff"
    /\ parse_original' =
           IF Not(diff) THEN ParseStart(<< >>) ELSE ParseStart(Split(diff))
    /\ pc' = IF Not(diff) THEN "done" ELSE "parse_original_diff_loop"
    /\ UNCHANGED << tool_vars, diff, sanitized, pattern_index, replaced, found_credentials,
                    parse >>

ParseOriginalDiffLine ==
    /\ pc = "parse_original_diff_loop"
    /\ ~parse_original.raised
    /\ parse_original.i <= Len(parse_original.lines)
    /\ parse_original' = ParseLine(parse_original, FALSE)
    /\ UNCHANGED << tool_vars, diff, pc, sanitized, pattern_index, replaced,
                    found_credentials, parse >>

ParseOriginalDiffReturn ==
    /\ pc = "parse_original_diff_loop"
    /\ ~parse_original.raised
    /\ parse_original.i > Len(parse_original.lines)
    /\ pc' = "done"
    /\ UNCHANGED << tool_vars, diff, sanitized, pattern_index, replaced, found_credentials,
                    parse, parse_original >>

\* int() raised in the loop: the exception leaves parse_original_diff.
ParseOriginalDiffRaise ==
    /\ pc = "parse_original_diff_loop"
    /\ parse_original.raised
    /\ pc' = "done"
    /\ UNCHANGED << tool_vars, diff, sanitized, pattern_index, replaced,
                    found_credentials, parse, parse_original >>

(***************************************************************************)
(* The tools of the server.  A tool call is one step: request is the call, *)
(* calls the calls it made to bitbucket_service, response what it returned.*)
(***************************************************************************)
\* parse_ai_feedback_with_line_numbers(pr_id, repository, ai_feedback);
\* get_pr_diff returns the diff of the PR or raises.
ParseAiFeedbackWithLineNumbers ==
    /\ pc = "serve"
    /\ \E ai_feedback \in Feedbacks, fetched \in { diff, Raised } :
          /\ request' = [tool |-> "parse_ai_feedback_with_line_numbers",
                         ai_feedback |-> ai_feedback, fetched |-> fetched]
          /\ response' = parse_ai_feedback_with_line_numbers(fetched, ai_feedback)
    /\ calls' = << "get_pr_diff" >>
    /\ pc' = "done"
    /\ served' = served + 1
    /\ UNCHANGED << workflows, diff, sanitized, pattern_index, replaced, found_credentials,
                    parse, parse_original, pr_comments >>


\* review_pull_request (review_pr_tool.py)
ReviewPullRequest ==
    /\ pc = "serve"
    /\ \E pr_identifier \in Identifiers, listed \in Listings,
          fetched \in { diff, Raised } :
          /\ request' = [tool |-> "review_pull_request",
                         pr_identifier |-> pr_identifier,
                         listed |-> listed, fetched |-> fetched]
          /\ response' = review_pull_request(pr_identifier, listed, fetched)
          /\ calls' = IF ~listed.raised
                            /\ Len(find_multiple_prs(pr_identifier, listed.prs)) = 1
                       THEN << "get_all_pull_requests", "get_pr_diff" >>
                       ELSE << "get_all_pull_requests" >>
    /\ pc' = "done"
    /\ served' = served + 1
    /\ UNCHANGED << workflows, diff, sanitized, pattern_index, replaced, found_credentials,
                    parse, parse_original, pr_comments >>

\* review_and_preview_comments (integrated_review_tool.py)
ReviewAndPreviewComments ==
    /\ pc = "serve"
    /\ \E pr_identifier \in Identifiers, listed \in Listings :
          /\ request' = [tool |-> "review_and_preview_comments",
                         pr_identifier |-> pr_identifier, listed |-> listed]
          /\ response' = review_and_preview_comments(pr_identifier, listed)
    /\ calls' = << "get_all_pull_requests" >>
    /\ pc' = "done"
    /\ served' = served + 1
    /\ UNCHANGED << workflows, diff, sanitized, pattern_index, replaced, found_credentials,
                    parse, parse_original, pr_comments >>

\* review_pr_with_line_comments (enhanced_review_tool.py)
ReviewPrWithLineComments ==
    /\ pc = "serve"
    /\ \E repository \in Repositories, details \in { PullRequestDetails, Raised },
          fetched \in { diff, Raised } :
          /\ request' = [tool |-> "review_pr_with_line_comments",
                         repository |-> repository, details |-> details,
                         fetched |-> fetched]
          /\ response' = review_pr_with_line_comments(repository, details, fetched)
          /\ calls' = IF details = Raised
                       THEN << "get_pr_details" >>
                       ELSE << "get_pr_details", "get_pr_diff" >>
    /\ pc' = "done"
    /\ served' = served + 1
    /\ UNCHANGED << workflows, diff, sanitized, pattern_index, replaced, found_credentials,
                    parse, parse_original, pr_comments >>

\* analyze_diff_for_issues (enhanced_review_tool.py)
AnalyzeDiffForIssues ==
    /\ pc = "serve"
    /\ \E fetched \in { diff, Raised } :
          /\ request' = [tool |-> "analyze_diff_for_issues", fetched |-> fetched]
          /\ response' = analyze_diff_for_issues(fetched)
    /\ calls' = << "get_pr_diff" >>
    /\ pc' = "done"
    /\ served' = served + 1
    /\ UNCHANGED << workflows, diff, sanitized, pattern_index, replaced, found_credentials,
                    parse, parse_original, pr_comments >>


\* What the calls of one request do, given what get_pr_comments does for
\* each PR.
Env(listed, fetches, fetched, details) ==
    [listed |-> listed,
     comments |-> [n \in 1..Len(pull_requests) |->
                      IF fetches[n] = "raises"
                      THEN [raised |-> TRUE, values |-> << >>]
                      ELSE [raised |-> FALSE, values |-> pr_comments[n]]],
     fetched |-> fetched,
     details |-> details]

\* What the calls of one request can do.
Envs ==
    { Env(listed, fetches, fetched, details) :
         listed \in Listings, fetches \in CommentFetches,
         fetched \in { diff, Raised }, details \in { PullRequestDetails, Raised } }

\* A request is served: done is [response, calls] of the tool, with the
\* comments stored on the PR pr by post_review_comments.
Served(tool_request, pr, done) ==
    /\ request' = tool_request
    /\ response' = done.response
    /\ calls' = done.calls
    /\ pr_comments' = IF "stored" \in DOMAIN done
                      THEN [pr_comments EXCEPT ![pr] = @ \o done.stored]
                      ELSE pr_comments

\* post_review_comments (post_comments_tool.py); confirmation omitted is
\* confirmation false.
PostReviewComments ==
    /\ pc = "serve"
    /\ served < MaxRequests
    /\ \E pr \in 1..Len(pull_requests), comments \in CommentLists,
          confirmation \in BOOLEAN :
          \E outcomes \in Outcomes(comments) :
              Served([tool |-> "post_review_comments", pr |-> pr,
                      comments |-> comments, confirmation |-> confirmation],
                     pr, post_review_comments(pr, comments, confirmation, outcomes))
    /\ served' = served + 1
    /\ UNCHANGED << workflows, diff, pc, sanitized, pattern_index, replaced, found_credentials,
                    parse, parse_original >>

\* review_pr_and_comment and the tools of the same implementation
\* (enhanced_auto_review_tool.py)
ReviewPrAndComment ==
    /\ pc = "serve"
    /\ served < MaxRequests
    /\ \E pr_identifier \in PrIdentifiers, env \in Envs :
          Served([tool |-> "review_pr_and_comment", pr_identifier |-> pr_identifier,
                  listed |-> env.listed],
                 1, review_specific_pr(pr_identifier, env))
    /\ served' = served + 1
    /\ UNCHANGED << workflows, diff, pc, sanitized, pattern_index, replaced, found_credentials,
                    parse, parse_original >>

\* review_all_prs_and_comment and the tools of the same implementation
\* (enhanced_auto_review_tool.py)
ReviewAllPrsAndComment ==
    /\ pc = "serve"
    /\ served < MaxRequests
    /\ \E env \in Envs :
          Served([tool |-> "review_all_prs_and_comment", listed |-> env.listed],
                 1, review_all_prs(env))
    /\ served' = served + 1
    /\ UNCHANGED << workflows, diff, pc, sanitized, pattern_index, replaced, found_credentials,
                    parse, parse_original >>

\* A call of find_issue_locations returns.
Located(tool_request, locations) ==
    /\ request' = tool_request
    /\ response' = [kind |-> "locations", locations |-> locations]
    /\ calls' = << >>
    /\ pc' = "done"
    /\ served' = served + 1
    /\ UNCHANGED << workflows, diff, sanitized, pattern_index, replaced, found_credentials,
                    parse, parse_original, pr_comments >>

\* DiffParserService.find_issue_locations
FindIssueLocations ==
    /\ pc = "serve"
    /\ \E issue_patterns \in PatternLists :
          Located([tool |-> "find_issue_locations", issue_patterns |-> issue_patterns],
                  find_issue_locations(diff, issue_patterns))

\* DiffParserService.extract_extension_function_issues
ExtractExtensionFunctionIssues ==
    /\ pc = "serve"
    /\ Located([tool |-> "extract_extension_function_issues",
                issue_patterns |-> extension_function_patterns],
               extract_extension_function_issues(diff))

\* DiffParserService.extract_import_issues
ExtractImportIssues ==
    /\ pc = "serve"
    /\ Located([tool |-> "extract_import_issues", issue_patterns |-> import_patterns],
               extract_import_issues(diff))

\* DiffParserService.extract_documentation_issues
ExtractDocumentationIssues ==
    /\ pc = "serve"
    /\ Located([tool |-> "extract_documentation_issues",
                issue_patterns |-> documentation_patterns],
               extract_documentation_issues(diff))

\* DiffParserService.extract_swift_issues
ExtractSwiftIssues ==
    /\ pc = "serve"
    /\ Located([tool |-> "extract_swift_issues", issue_patterns |-> swift_patterns],
               extract_swift_issues(diff))

(***************************************************************************)
(* Calls of sanitize_diff, parse_diff and parse_original_diff that run at  *)
(* the same time on one SanitizationService and one DiffParserService.     *)
(* workflows.calls[w] is the call of workflow w: its function, its text,   *)
(* the statement it is at and what it returned.  workflows.frames holds    *)
(* the local variables of the calls.  The instances hold the compiled      *)
(* patterns only, which no method assigns.                                 *)
(***************************************************************************)
\* The local variables of a call before its first statement.
NoFrame == [sanitized |-> << >>, pattern_index |-> 1, parse |-> ParseStart(<< >>)]

\* Every call keeps its local variables in the frame of another call.
FrameOf_Shared(w) == 1

\* The frame of the call of workflow w: a call creates its own.
FrameOf(w) == w

\* What the function returns for the text when it runs alone.
RunAlone(function, text) ==
    CASE function = "sanitize_diff" -> sanitize_diff(text)
      [] function = "parse_diff" -> parse_diff(text)
      [] function = "parse_original_diff" -> parse_original_diff(text)

\* The call of workflow w moves to statement to with the frame written.
Moved(w, to, frame) ==
    workflows' = [calls |-> [workflows.calls EXCEPT ![w].pc = to],
                  frames |-> [workflows.frames EXCEPT ![FrameOf(w)] = frame]]

\* The call of workflow w returns the value.
Returned(w, value) ==
    workflows' = [workflows EXCEPT !.calls[w].pc = "returned",
                                   !.calls[w].returned = value]

\* sanitize_diff: sanitized = diff (the texts are never None)
ConcurrentSanitizeCall(w) ==
    /\ workflows.calls[w].function = "sanitize_diff"
    /\ workflows.calls[w].pc = "call"
    /\ Moved(w, "loop", [workflows.frames[FrameOf(w)] EXCEPT
                             !.sanitized = workflows.calls[w].text,
                             !.pattern_index = 1])

\* sanitized = pattern.sub(..., sanitized) for the next pattern
ConcurrentSanitizePattern(w) ==
    /\ workflows.calls[w].function = "sanitize_diff"
    /\ workflows.calls[w].pc = "loop"
    /\ workflows.frames[FrameOf(w)].pattern_index <= NumPatterns
    /\ Moved(w, "loop", [workflows.frames[FrameOf(w)] EXCEPT
                             !.sanitized = Sub(patterns[workflows.frames[FrameOf(w)].pattern_index], @),
                             !.pattern_index = @ + 1])

\* return sanitized
ConcurrentSanitizeReturn(w) ==
    /\ workflows.calls[w].function = "sanitize_diff"
    /\ workflows.calls[w].pc = "loop"
    /\ workflows.frames[FrameOf(w)].pattern_index > NumPatterns
    /\ Returned(w, workflows.frames[FrameOf(w)].sanitized)

\* The function is one of the two parsers.
IsParser(function) == function \in { "parse_diff", "parse_original_diff" }

\* parse_diff, parse_original_diff: locations = [], lines = diff.split,
\* the cursor unset (the texts are never empty)
ConcurrentParseCall(w) ==
    /\ IsParser(workflows.calls[w].function)
    /\ workflows.calls[w].pc = "call"
    /\ Moved(w, "loop", [workflows.frames[FrameOf(w)] EXCEPT
                             !.parse = ParseStart(Split(workflows.calls[w].text))])

\* one iteration of the loop over the lines
ConcurrentParseLine(w) ==
    /\ IsParser(workflows.calls[w].function)
    /\ workflows.calls[w].pc = "loop"
    /\ ~workflows.frames[FrameOf(w)].parse.raised
    /\ workflows.frames[FrameOf(w)].parse.i <= Len(workflows.frames[FrameOf(w)].parse.lines)
    /\ Moved(w, "loop", [workflows.frames[FrameOf(w)] EXCEPT
                             !.parse = ParseLine(@, workflows.calls[w].function = "parse_diff")])

\* return locations, or int() raised in the loop
ConcurrentParseReturn(w) ==
    /\ IsParser(workflows.calls[w].function)
    /\ workflows.calls[w].pc = "loop"
    /\ \/ workflows.frames[FrameOf(w)].parse.raised
       \/ workflows.frames[FrameOf(w)].parse.i > Len(workflows.frames[FrameOf(w)].parse.lines)
    /\ Returned(w, IF workflows.frames[FrameOf(w)].parse.raised
                   THEN Raised
                   ELSE workflows.frames[FrameOf(w)].parse.locations)

(***************************************************************************)
(* Specifications                                                          *)
(***************************************************************************)
\* The parser: parse_diff and parse_original_diff of one diff text.
Init == InitWith(DiffInputs, "parse_diff")

Next ==
    \/ ParseDiffCall(diff, "parse_original_diff")
    \/ ParseDiffLine
    \/ ParseDiffReturn("parse_original_diff")
    \/ ParseOriginalDiffCall
    \/ ParseOriginalDiffLine
    \/ ParseOriginalDiffReturn

Spec == Init /\ [][Next]_vars

\* The sanitizer: sanitize_diff and detect_credentials of one text.
InitSanitize == InitWith(TextInputs, "sanitize_diff")

NextSanitize ==
    \/ SanitizeDiffCall("detect_credentials")
    \/ SanitizeDiffPattern
    \/ SanitizeDiffReturn("detect_credentials")
    \/ DetectCredentialsCall
    \/ DetectCredentialsPattern
    \/ DetectCredentialsReturn

SpecSanitize == InitSanitize /\ [][NextSanitize]_vars

\* sanitize_diff of one text, then detect_credentials of its result.
NextRedetect ==
    \/ SanitizeDiffCall("detect_credentials")
    \/ SanitizeDiffPattern
    \/ SanitizeDiffReturn("detect_credentials")
    \/ DetectCredentialsCall
    \/ DetectSanitizedPattern
    \/ DetectCredentialsReturn

SpecRedetect == InitSanitize /\ [][NextRedetect]_vars

\* A review: the fetched diff is sanitized, the sanitized text is parsed
\* with parse_diff and the fetched diff with parse_original_diff.
InitReview == InitWith(ReviewInputs, "sanitize_diff")

NextReview ==
    \/ SanitizeDiffCall("parse_diff")
    \/ SanitizeDiffPattern
    \/ SanitizeDiffReturn("parse_diff")
    \/ ParseDiffCall(sanitized, "parse_original_diff")
    \/ ParseDiffLine
    \/ ParseDiffReturn("parse_original_diff")
    \/ ParseOriginalDiffCall
    \/ ParseOriginalDiffLine
    \/ ParseOriginalDiffReturn

SpecReview == InitReview /\ [][NextReview]_vars

\* The two parsers on diffs whose file headers vary in their paths and in
\* the [REDACTED] markers.
InitHeaders == InitWith(HeaderInputs, "parse_diff")

SpecHeaders == InitHeaders /\ [][Next]_vars

\* The correlator: one call of parse_ai_feedback_with_line_numbers for a
\* PR with the given diff.
InitCorrelate == InitWith(SwiftInputs, "serve")

NextCorrelate == ParseAiFeedbackWithLineNumbers

SpecCorrelate == InitCorrelate /\ [][NextCorrelate]_vars

\* The three entry points called with one input that may be None, empty,
\* truncated or malformed; an exception of one call is recorded and the
\* next call is made.  The diff with the overlong hunk header is given to
\* the two parsers only.
InitRobust ==
    \/ InitWith(RobustInputs, "sanitize_diff")
    \/ InitWith({ LongHunkDiff }, "parse_diff")

NextRobust ==
    \/ SanitizeDiffCall("parse_diff")
    \/ SanitizeDiffPattern
    \/ SanitizeDiffReturn("parse_diff")
    \/ ParseDiffCall(diff, "parse_original_diff")
    \/ ParseDiffLine
    \/ ParseDiffReturn("parse_original_diff")
    \/ ParseDiffRaise("parse_original_diff")
    \/ ParseOriginalDiffCall
    \/ ParseOriginalDiffLine
    \/ ParseOriginalDiffReturn
    \/ ParseOriginalDiffRaise

SpecRobust == InitRobust /\ [][NextRobust]_vars


\* The tools that show a diff to the agent or prepare comments from it,
\* each called once on the diff of a PR.
InitAgent == InitWith(AgentInputs, "serve")

NextAgent ==
    \/ ReviewPullRequest
    \/ ReviewAndPreviewComments
    \/ ReviewPrWithLineComments
    \/ AnalyzeDiffForIssues

SpecAgent == InitAgent /\ [][NextAgent]_vars


\* The tools that post comments, called up to MaxRequests times in any
\* order on the PRs of Bitbucket.
InitPost ==
    /\ diff = FooDiff
    /\ pc = "serve"
    /\ sanitized = << >>
    /\ pattern_index = 1
    /\ replaced = {}
    /\ found_credentials = << >>
    /\ parse = ParseStart(<< >>)
    /\ parse_original = ParseStart(<< >>)
    /\ request = NoRequest
    /\ response = NoResponse
    /\ calls = << >>
    /\ pr_comments \in CommentStores
    /\ served = 0
    /\ workflows = NoWorkflows

NextPost ==
    \/ PostReviewComments
    \/ ReviewPrAndComment
    \/ ReviewAllPrsAndComment

SpecPost == InitPost /\ [][NextPost]_vars


\* The two tools that look for one PR by an identifier and review it,
\* called in any order on the PRs of Bitbucket.
NextFind ==
    \/ ReviewPullRequest
    \/ ReviewPrAndComment

SpecFind == InitPost /\ [][NextFind]_vars


\* The issue extractors, each called once on a diff.
InitExtract == InitWith(ExtractInputs, "serve")

NextExtract ==
    \/ FindIssueLocations
    \/ ExtractExtensionFunctionIssues
    \/ ExtractImportIssues
    \/ ExtractDocumentationIssues
    \/ ExtractSwiftIssues

SpecExtract == InitExtract /\ [][NextExtract]_vars


\* NumWorkflows calls started together; alone is what each call returns
\* when it runs alone.
InitConcurrent ==
    /\ diff = << >>
    /\ pc = "concurrent"
    /\ sanitized = << >>
    /\ pattern_index = 1
    /\ replaced = {}
    /\ found_credentials = << >>
    /\ parse = ParseStart(<< >>)
    /\ parse_original = ParseStart(<< >>)
    /\ request = NoRequest
    /\ response = NoResponse
    /\ calls = << >>
    /\ pr_comments = << >>
    /\ served = 0
    /\ \E started \in [1..NumWorkflows -> ConcurrentCalls] :
          workflows =
              [calls |-> [w \in 1..NumWorkflows |->
                             [function |-> started[w][1], text |-> started[w][2],
                              pc |-> "call", returned |-> << >>,
                              alone |-> RunAlone(started[w][1], started[w][2])]],
               frames |-> [w \in 1..NumWorkflows |-> NoFrame]]

NextConcurrent ==
    /\ pc = "concurrent"
    /\ \E w \in 1..NumWorkflows :
          \/ ConcurrentSanitizeCall(w)
          \/ ConcurrentSanitizePattern(w)
          \/ ConcurrentSanitizeReturn(w)
          \/ ConcurrentParseCall(w)
          \/ ConcurrentParseLine(w)
          \/ ConcurrentParseReturn(w)
    /\ UNCHANGED << diff, pc, sanitized, pattern_index, replaced, found_credentials,
                    parse, parse_original, request, response, calls, pr_comments,
                    served >>

SpecConcurrent == InitConcurrent /\ [][NextConcurrent]_vars

(***************************************************************************)
(* Properties                                                              *)
(***************************************************************************)
IsFileHeader(line, tolerant) == file_header_pattern(line, tolerant) # << >>
IsHunkHeader(line) == hunk_header_pattern(line) # NoLine
IsAddition(line) == StartsWith(line, 1, <<"+">>)
IsRemoval(line) == StartsWith(line, 1, <<"-">>)
IsContext(line) == StartsWith(line, 1, <<" ">>)

\* The elements of s at the indices in I, in increasing order of index.
Pick(s, I) ==
    LET nth(n) == CHOOSE i \in I : Cardinality({ j \in I : j < i }) = n - 1
    IN  [n \in 1..Cardinality(I) |-> s[nth(n)]]

\* The lines of a text as the parser sees them.
LinesOf(text) == IF text = << >> THEN << >> ELSE Split(text)

LineNumbers(locations) ==
    [n \in 1..Len(locations) |-> locations[n].line_number]

\* g is the state after the line f.i of f, and that line emitted a location.
Emits(f, g) == g.i = f.i + 1 /\ Len(g.locations) = Len(f.locations) + 1

\* The most recent line before i that satisfies Is, 0 if there is none.
MostRecent(lines, i, Is(_)) ==
    IF \E h \in 1..(i - 1) : Is(lines[h])
    THEN CHOOSE h \in 1..(i - 1) :
            Is(lines[h]) /\ \A j \in (h + 1)..(i - 1) : ~Is(lines[j])
    ELSE 0

\* A parse has returned.
ParseDiffReturned ==
    pc \in {"parse_original_diff", "parse_original_diff_loop", "done"}

\* C1: in a review, parse_diff of the sanitized diff and
\* parse_original_diff of the fetched diff return equally many locations,
\* with the same line_number at every index.
C1_SanitizedLineNumbers ==
    pc = "done" =>
        LineNumbers(parse.locations) = LineNumbers(parse_original.locations)

\* C3: the line_number of every emitted location is the new-file start of
\* the most recent hunk header plus the number of context and addition
\* lines seen since that header; and the diff with the one hunk
\* @@ -1,3 +1,4 @@ and the lines ' a', '+b', ' c', '-old', ' d' yields
\* exactly one location, with line_number 2 and content 'b'.
C3_Emitted(f, g) ==
    Emits(f, g) =>
        LET h == MostRecent(f.lines, f.i, IsHunkHeader)
        IN  /\ h > 0
            /\ g.locations[Len(g.locations)].line_number =
                   hunk_header_pattern(f.lines[h])
                   + Cardinality({ j \in (h + 1)..(f.i - 1) :
                         IsContext(f.lines[j]) \/ IsAddition(f.lines[j]) })

C3_Example(locations) ==
    /\ Len(locations) = 1
    /\ locations[1].line_number = 2
    /\ locations[1].content = <<"b">>

C3_LineNumbers ==
    /\ [](pc = "done" /\ diff = ExampleDiff =>
              C3_Example(parse.locations) /\ C3_Example(parse_original.locations))
    /\ [][C3_Emitted(parse, parse')
            /\ C3_Emitted(parse_original, parse_original')]_vars

C3_Witness ==
    /\ pc = "done"
    /\ diff = TwoFileDiff
    /\ LineNumbers(parse.locations) = << 12, 14, 1, 13 >>
    /\ LineNumbers(parse_original.locations) = << 12, 14, 1, 13 >>

\* C4: a location is emitted only after a file header and a hunk header
\* that follows the most recent file header; after a file header line the
\* line cursor is unset.
C4_Emitted(f, g, tolerant) ==
    LET IsHeader(line) == IsFileHeader(line, tolerant)
    IN  /\ Emits(f, g) =>
               /\ MostRecent(f.lines, f.i, IsHeader) > 0
               /\ MostRecent(f.lines, f.i, IsHunkHeader)
                      > MostRecent(f.lines, f.i, IsHeader)
        /\ g.i = f.i + 1 /\ IsHeader(f.lines[f.i]) =>
               g.current_line_number = NoLine /\ g.locations = f.locations

C4_HeadersFirst ==
    [][C4_Emitted(parse, parse', TRUE)
         /\ C4_Emitted(parse_original, parse_original', FALSE)]_vars

\* An addition line of a second file, before that file's first hunk
\* header, has been passed without a location for it.
C4_Witness ==
    /\ pc = "parse_diff_loop"
    /\ parse.i > 1
    /\ IsAddition(parse.lines[parse.i - 1])
    /\ parse.current_file # NoFile
    /\ parse.current_line_number = NoLine
    /\ Len(parse.locations) > 0
    /\ \A n \in 1..Len(parse.locations) :
           parse.locations[n].file_path # parse.current_file

\* C5: deleting any subset of the lines that begin with '-' from a diff
\* leaves the result of parse_diff unchanged.
C5_RemovalsDoNotShift ==
    pc = "parse_original_diff" =>
        LET lines == LinesOf(diff)
            removals == { i \in 1..Len(lines) : IsRemoval(lines[i]) }
        IN  \A S \in SUBSET removals :
                parse_diff(Join(Pick(lines, (1..Len(lines)) \ S)))
                    = parse.locations

\* A removal line precedes an addition line that has a location.
C5_Witness ==
    /\ pc = "parse_original_diff"
    /\ Len(parse.locations) > 0
    /\ \E i \in 1..(Len(parse.lines) - 1) :
           /\ IsRemoval(parse.lines[i])
           /\ IsAddition(parse.lines[i + 1])
           /\ ~NoContext(ParseLoopTo(ParseStart(parse.lines), TRUE, i))

\* C6: the locations of a parse are, in order, the lines that begin with
\* '+' and follow a hunk header of the current file, each with is_addition
\* true and the line without its first character as content.
C6_Expected(lines, tolerant) ==
    LET IsHeader(line) == IsFileHeader(line, tolerant)
        emitting == { i \in 1..Len(lines) :
                        /\ IsAddition(lines[i])
                        /\ MostRecent(lines, i, IsHeader) > 0
                        /\ MostRecent(lines, i, IsHunkHeader)
                               > MostRecent(lines, i, IsHeader) }
        added == Pick(lines, emitting)
    IN  [n \in 1..Len(added) |->
            [content |-> Tail(added[n]), is_addition |-> TRUE]]

C6_Shown(locations) ==
    [n \in 1..Len(locations) |->
        [content |-> locations[n].content,
         is_addition |-> locations[n].is_addition]]

C6_OnlyAdditions ==
    pc = "done" =>
        /\ C6_Shown(parse.locations) = C6_Expected(LinesOf(diff), TRUE)
        /\ C6_Shown(parse_original.locations) = C6_Expected(LinesOf(diff), FALSE)

\* Context, removal and header lines were passed, and additions before
\* and after a hunk header, some with and some without a location.
C6_Witness ==
    /\ pc = "done"
    /\ Len(parse.locations) >= 2
    /\ Len(parse.locations)
           < Cardinality({ i \in 1..Len(parse.lines) : IsAddition(parse.lines[i]) })
    /\ \E i \in 1..Len(parse.lines) : IsContext(parse.lines[i])
    /\ \E i \in 1..Len(parse.lines) : IsRemoval(parse.lines[i])

\* C7: every location emitted by parse_diff or parse_original_diff has
\* line_number >= 1.
C7_LineNumberPositive ==
    /\ \A n \in 1..Len(parse.locations) : parse.locations[n].line_number >= 1
    /\ \A n \in 1..Len(parse_original.locations) :
           parse_original.locations[n].line_number >= 1

\* The number of newline characters of a text.
NewlineCount(text) == Cardinality({ p \in 1..Len(text) : text[p] = "\n" })

\* sub occurs in text.
Occurs(sub, text) ==
    \E p \in 1..(Len(text) - Len(sub) + 1) : StartsWith(text, p, sub)

Redacted == <<"[", "R", "E", "D", "A", "C", "T", "E", "D", "]">>

\* C2: the text sanitize_diff produces has as many newline characters as
\* its input, after every pattern of the shipped set.
C2_NewlinesPreserved ==
    pc # "sanitize_diff" => NewlineCount(sanitized) = NewlineCount(diff)

\* C8: sanitize_diff applied to its own result returns that result.
C8_Idempotent ==
    pc = "detect_credentials" => sanitize_diff(sanitized) = sanitized

\* Two patterns have matched and the result differs from the input.
C8_Witness ==
    /\ pc = "detect_credentials"
    /\ sanitized # diff
    /\ Cardinality({ r.pattern : r \in replaced }) >= 2

\* C9 as stated: the text that a match was replaced by (group 1,
\* [REDACTED], group 3; or [REDACTED] for a one-group pattern) occurs in
\* the text sanitize_diff returns.
C9_KeptInResult ==
    pc = "detect_credentials" =>
        \A r \in replaced : Occurs(r.text, sanitized)

\* The change in length that replacing match m of pattern p makes.
C9_Grow(p, m) ==
    Len(Redacted) - (IF p.groups = 3 THEN m.e2 - m.e1 ELSE m.e - m.s)

\* The change in length that replacing the matches before the j-th makes.
RECURSIVE C9_Shift(_, _, _)
C9_Shift(p, ms, j) ==
    IF j <= 1 THEN 0 ELSE C9_Shift(p, ms, j - 1) + C9_Grow(p, ms[j - 1])

\* out is text with exactly the group-2 span of every match of a
\* three-group pattern p, or the whole of every match of a one-group
\* pattern p, replaced by [REDACTED], and nothing else changed.
C9_OnlySpansReplaced(p, text, out) ==
    LET ms == Matches(p, text)
    IN  /\ Len(out) = Len(text) + C9_Shift(p, ms, Len(ms) + 1)
        /\ \A j \in 1..Len(ms) :
               LET m == ms[j]
                   o == m.s + C9_Shift(p, ms, j)
               IN  IF p.groups = 3
                   THEN /\ Slice(out, o, o + (m.e1 - m.s)) = Slice(text, m.s, m.e1)
                        /\ Slice(out, o + (m.e1 - m.s),
                                 o + (m.e1 - m.s) + Len(Redacted)) = Redacted
                        /\ Slice(out, o + (m.e1 - m.s) + Len(Redacted),
                                 o + (m.e1 - m.s) + Len(Redacted) + (m.e - m.e2))
                               = Slice(text, m.e2, m.e)
                   ELSE Slice(out, o, o + Len(Redacted)) = Redacted
        /\ \A q \in 1..Len(text) :
               (\A j \in 1..Len(ms) : q < ms[j].s \/ q >= ms[j].e) =>
                   out[q + C9_Shift(p, ms,
                           1 + Cardinality({ j \in 1..Len(ms) : ms[j].e <= q }))]
                       = text[q]

\* C9, amended: in the text one pattern's substitution produces, group 1
\* and group 3 of every match are unchanged and exactly the group-2 span
\* is [REDACTED] (the whole match for a one-group pattern), and the text
\* outside the matches is unchanged.
C9_PassKeepsPrefixSuffix ==
    [][pc = "sanitize_diff_loop" /\ pattern_index' = pattern_index + 1 =>
           C9_OnlySpansReplaced(patterns[pattern_index], sanitized, sanitized')]_vars

\* A three-group pattern and a one-group pattern have both matched.
C9_Witness ==
    /\ pc = "detect_credentials"
    /\ \E r \in replaced : patterns[r.pattern].groups = 3 /\ r.text # Redacted
    /\ \E r \in replaced : patterns[r.pattern].groups = 1

\* C10: detect_credentials returns spans of its input; for
\* password: "abc123" it returns the one span abc123, and sanitize_diff
\* of that input is password: "[REDACTED]".
C10_DetectCredentials ==
    pc = "done" =>
        /\ \A n \in 1..Len(found_credentials) : Occurs(found_credentials[n], diff)
        /\ diff = ExamplePassword =>
               /\ found_credentials = << <<"a", "b", "c", "1", "2", "3">> >>
               /\ sanitized = 
                      <<"p", "a", "s", "s", "w", "o", "r", "d", ":", " ", "\"", "[", "R", "E", "D", "A", "C", "T", "E", "D", "]", "\"">>

C10_Witness ==
    /\ pc = "done"
    /\ diff = ExamplePassword
    /\ Len(found_credentials) = 1
    /\ sanitized # diff

\* C11: no input makes sanitize or parse fail: no call raises,
\* sanitize_diff(None) returns the empty string, and parse_diff and
\* parse_original_diff return no location for None or the empty text.
C11_NeverFails ==
    /\ ~parse.raised
    /\ ~parse_original.raised
    /\ (diff = None /\ pc # "sanitize_diff") => sanitized = << >>
    /\ (Not(diff) /\ pc = "done") =>
           parse.locations = << >> /\ parse_original.locations = << >>

\* C12: for every diff none of whose file header lines contains
\* '[REDACTED]', parse_diff and parse_original_diff return the same
\* sequence of locations.
C12_NoRedactedHeader(text) ==
    \A i \in 1..Len(LinesOf(text)) :
        IsFileHeader(LinesOf(text)[i], TRUE) => ~Occurs(Redacted, LinesOf(text)[i])

C12_SameLocations ==
    (pc = "done" /\ C12_NoRedactedHeader(diff)) =>
        parse.locations = parse_original.locations

\* Both parsers have returned the locations of a diff of two files with
\* plain headers.
C12_Witness ==
    /\ pc = "done"
    /\ C12_NoRedactedHeader(diff)
    /\ Len(parse_original.locations) = 2
    /\ parse_original.locations[1].file_path # parse_original.locations[2].file_path
    /\ parse.locations = parse_original.locations

\* C13: a location emitted after the file header 'diff --git a/P b/Q' and
\* before the next file header has file_path = Q, for all paths P and Q.
C13_Emitted(f, g, tolerant) ==
    LET IsHeader(line) == IsFileHeader(line, tolerant)
        h == MostRecent(f.lines, f.i, IsHeader)
    IN  Emits(f, g) =>
            \A P \in Paths, Q \in Paths :
                (h > 0 /\ f.lines[h] = HeaderLine(<< >>, P, << >>, Q)) =>
                    g.locations[Len(g.locations)].file_path = Q

C13_NewPath ==
    [][C13_Emitted(parse, parse', TRUE)
         /\ C13_Emitted(parse_original, parse_original', FALSE)]_vars

\* The tool was called, the diff was fetched and is not empty, and the
\* feedback has issues.
CorrelateCalled ==
    /\ request.tool = "parse_ai_feedback_with_line_numbers"
    /\ request.fetched = diff
    /\ ~Not(diff)
    /\ parse_review_feedback(request.ai_feedback) # << >>

\* C14: each issue is resolved by the chain file name, then code snippet,
\* then 'Unknown' and 0, the first match winning; with the one location
\* (Foo.swift, 10, 'let x = y!') the feedback 'Force unwrap in Foo.swift'
\* resolves to Foo.swift, line 10.
C14_FallbackChain ==
    /\ CorrelateCalled =>
           /\ response.kind = "success"
           /\ \A n \in 1..Len(response.comments) :
                  LET expected == StructuredComment(
                                      parse_review_feedback(request.ai_feedback)[n],
                                      parse_diff(diff))
                  IN  /\ response.comments[n].file_path = expected.file_path
                      /\ response.comments[n].line_number = expected.line_number
    /\ (/\ request.tool = "parse_ai_feedback_with_line_numbers"
        /\ request.fetched = diff
        /\ diff = FooDiff
        /\ In(<<"F", "o", "r", "c", "e", " ", "u", "n", "w", "r", "a", "p", " ", "i", "n", " ", "F", "o", "o", ".", "s", "w", "i", "f", "t">>, request.ai_feedback)) =>
           /\ response.kind = "success"
           /\ response.comments[1].file_path = <<"F", "o", "o", ".", "s", "w", "i", "f", "t">>
           /\ response.comments[1].line_number = 10

\* C15: for a non-empty diff the tool returns one comment per issue of the
\* feedback, in order, an unresolved issue with 'Unknown' and 0; it
\* returns no error result in place of the comments.
C15_OneCommentPerIssue ==
    CorrelateCalled =>
        LET issues == parse_review_feedback(request.ai_feedback)
        IN  /\ response.kind = "success"
            /\ Len(response.comments) = Len(issues)
            /\ \A n \in 1..Len(issues) :
                   /\ response.comments[n].content = issues[n].description
                   /\ MatchedLocation(issues[n], parse_diff(diff)) = NoLocation =>
                          /\ response.comments[n].file_path = Unknown
                          /\ response.comments[n].line_number = 0

\* The tool prepared comments from the diff of the PR.
CommentsPrepared ==
    /\ request.tool = "review_pr_with_line_comments"
    /\ request.fetched = diff
    /\ response.kind = "success"

\* The comment is about the line at location: it has the location's file
\* path and line number, and it is the comment the tool prepares for the
\* content of that line, or a comment on the file's imports or
\* documentation.
C16_About(comment, location) ==
    /\ comment.file_path = location.file_path
    /\ comment.line_number = location.line_number
    /\ \/ << comment >> = SwiftComment(location)
       \/ << comment >> = ExtensionComment(location)
       \/ comment.content \in { <<"*", "*", "P", "1", " ", "I", "s", "s", "u", "e", ":", "*", "*", " ", "I", "m", "p", "o", "r", "t", " ", "c", "l", "e", "a", "n", "u", "p", " ", "n", "e", "e", "d", "e", "d">>,
                                <<"*", "*", "P", "1", " ", "I", "s", "s", "u", "e", ":", "*", "*", " ", "M", "i", "s", "s", "i", "n", "g", " ", "d", "o", "c", "u", "m", "e", "n", "t", "a", "t", "i", "o", "n">> }

\* C16: every file_path and line_number of a comment prepared for posting
\* is the position, in the parse of the original diff fetched for the
\* request, of a line the comment is about.
C16_OriginalLocations ==
    CommentsPrepared =>
        \A n \in 1..Len(response.comments) :
            \E i \in 1..Len(parse_original_diff(diff)) :
                C16_About(response.comments[n], parse_original_diff(diff)[i])

\* The response of the tool of the request, had it fetched the diff text.
C17_Response(text) ==
    CASE request.tool = "review_pull_request" ->
             review_pull_request(request.pr_identifier, request.listed, text)
      [] request.tool = "review_pr_with_line_comments" ->
             review_pr_with_line_comments(request.repository, request.details, text)
      [] request.tool = "analyze_diff_for_issues" ->
             analyze_diff_for_issues(text)

\* C17: the diff text in a response of review_pull_request is the output
\* of sanitize_diff on the fetched diff, review_and_preview_comments
\* returns no diff text, and a diff that differs from the fetched one only
\* in secrets that the sanitizer redacts gets the same response from
\* review_pull_request, review_pr_with_line_comments and
\* analyze_diff_for_issues.
C17_SanitizedOnly ==
    /\ (request.tool = "review_pull_request" /\ response.kind = "success") =>
           response.sanitized_diff = sanitize_diff(request.fetched)
    /\ request.tool = "review_and_preview_comments" => response.kind = "error"
    /\ (/\ request.tool \in { "review_pull_request", "review_pr_with_line_comments",
                               "analyze_diff_for_issues" }
        /\ request.fetched = diff
        /\ Vary(diff) # diff) =>
           \/ response = C17_Response(Vary(diff))
           \/ sanitize_diff(Vary(diff)) # sanitize_diff(diff)

\* review_pull_request returned the diff of a PR whose secret was redacted.
C17_Witness ==
    /\ request.tool = "review_pull_request"
    /\ response.kind = "success"
    /\ request.fetched = diff
    /\ Vary(diff) # diff
    /\ sanitize_diff(Vary(diff)) = sanitize_diff(diff)
    /\ In(Redacted, response.sanitized_diff)

\* The calls of post_comment among the calls of the last request.
PostCommentCalls == { i \in 1..Len(calls) : calls[i].call = "post_comment" }

\* C18: a call of post_review_comments without confirmation returns the
\* error Confirmation required, calls post_comment for no comment and
\* leaves the comments of every PR as they are.
C18_ConfirmationRequired ==
    [][(/\ served' # served
        /\ request'.tool = "post_review_comments"
        /\ ~request'.confirmation) =>
           /\ response' = ErrorResult("Confirmation required")
           /\ calls' = << >>
           /\ pr_comments' = pr_comments]_vars

\* post_review_comments was called without confirmation for a comment
\* that it would post.
C18_Witness ==
    /\ request.tool = "post_review_comments"
    /\ ~request.confirmation
    /\ request.comments = << CommentP0 >>
    /\ response = ErrorResult("Confirmation required")

\* The comment that a call of post_comment sends: a comment of the
\* request of post_review_comments, or a comment of the review in an
\* auto-review.
C19_Sent(i) ==
    IF request.tool = "post_review_comments"
    THEN request.comments[calls[i].of]
    ELSE call_claude_api[calls[i].of]

\* C19: post_comment is called for no comment of severity P2 or SUMMARY
\* and for no comment flagged as summary, by post_review_comments and by
\* the auto-review tools, whatever was called before.
C19_NoP2NoSummary ==
    \A i \in PostCommentCalls :
        /\ C19_Sent(i).severity \notin { "P2", "SUMMARY" }
        /\ ~C19_Sent(i).is_summary

\* post_review_comments got a review with a P2 and two summaries and
\* called post_comment for the P0 and the P1 only.
C19_Witness ==
    /\ request.tool = "post_review_comments"
    /\ request.comments =
           << CommentP2, CommentP0, CommentSummary, CommentP1, CommentFlagged >>
    /\ { calls[i].of : i \in PostCommentCalls } = { 2, 4 }

\* The auto-review tools.
AutoReviewTools == { "review_pr_and_comment", "review_all_prs_and_comment" }

\* The last request reports the PR n with the status.
C20_Reported(n, status) ==
    IF request.tool = "review_pr_and_comment"
    THEN /\ response.kind = "success"
         /\ response.result.pr_id = pull_requests[n].id
         /\ response.result.status = status
    ELSE /\ response.kind = "success"
         /\ \E j \in 1..Len(response.results) :
                /\ response.results[j].pr_id = pull_requests[n].id
                /\ response.results[j].status = status

\* The last request fetched comments of PR n, one of them with the marker.
C20_FetchedMarker(n) ==
    \E i \in 1..Len(calls) :
        /\ calls[i].call = "get_pr_comments"
        /\ calls[i].pr = n
        /\ ~calls[i].raised
        /\ \E k \in 1..Len(calls[i].values) : In(AiReviewMarker, calls[i].values[k])

\* Some comment on PR n carries the marker.
C20_Marked(n) ==
    \E k \in 1..Len(pr_comments[n]) : In(AiReviewMarker, pr_comments[n][k])

\* In an auto-review, a PR whose fetched comments carry the marker is
\* reported SKIPPED, its diff is not fetched and nothing is posted on it.
C20_Skips ==
    request.tool \in AutoReviewTools =>
        \A n \in 1..Len(pull_requests) :
            C20_FetchedMarker(n) =>
                /\ C20_Reported(n, "SKIPPED")
                /\ \A i \in 1..Len(calls) :
                       calls[i].pr = n =>
                           calls[i].call \notin { "get_pr_diff", "post_comment" }

\* C20: an auto-review reports a PR whose fetched comments contain
\* [AI - Review] as SKIPPED, does not fetch its diff and posts nothing on
\* it; every comment the server posts contains [AI - Review]; and an
\* auto-review posts nothing on a PR that has a comment with it.
C20_SkipsReviewed ==
    [][/\ C20_Skips'
       /\ \A n \in 1..Len(pull_requests) :
              /\ \A k \in (Len(pr_comments[n]) + 1)..Len(pr_comments'[n]) :
                     In(AiReviewMarker, pr_comments'[n][k])
              /\ (request'.tool \in AutoReviewTools /\ C20_Marked(n)) =>
                     /\ pr_comments'[n] = pr_comments[n]
                     /\ \A i \in 1..Len(calls') :
                            calls'[i].pr = n => calls'[i].call # "post_comment"]_vars

\* After a comment was posted on the first PR, review_pr_and_comment of
\* that PR fetched its comments and reported it SKIPPED.
C20_Witness ==
    /\ request.tool = "review_pr_and_comment"
    /\ C20_FetchedMarker(1)
    /\ C20_Reported(1, "SKIPPED")

\* The extractor calls.
ExtractorTools ==
    { "find_issue_locations", "extract_extension_function_issues",
      "extract_import_issues", "extract_documentation_issues",
      "extract_swift_issues" }

\* The patterns of the request that find the content, ignoring case.
C21_Probes(location) ==
    { i \in 1..Len(request.issue_patterns) :
         re_search(request.issue_patterns[i], location.content) }

C21_Matched(location) == C21_Probes(location) # {}

\* C21: an extractor returns the locations of parse_diff whose content at
\* least one pattern of its group finds, ignoring case, in the order of
\* parse_diff and each of them once, however many patterns find it.
C21_Subsequence ==
    request.tool \in ExtractorTools =>
        response.locations = SelectSeq(parse_diff(diff), C21_Matched)

\* extract_import_issues returned once an import that two patterns find
\* and left out a line that none finds.
C21_Witness ==
    /\ request.tool = "extract_import_issues"
    /\ Len(response.locations) = 1
    /\ Cardinality(C21_Probes(response.locations[1])) > 1
    /\ Len(parse_diff(diff)) = 2
    /\ ~C21_Matched(parse_diff(diff)[1])

\* C22: under every interleaving of the statements of concurrent calls of
\* sanitize_diff, parse_diff and parse_original_diff, a call that has
\* returned has returned what it returns when it runs alone on its text.
C22_NoInterference ==
    \A w \in 1..Len(workflows.calls) :
        workflows.calls[w].pc = "returned" =>
            workflows.calls[w].returned = workflows.calls[w].alone

\* A call of sanitize_diff and a call of parse_diff that ran at the same
\* time have both returned, the first a redacted text, the second more
\* than one location.
C22_Witness ==
    /\ Len(workflows.calls) > 1
    /\ workflows.calls[1].function = "sanitize_diff"
    /\ workflows.calls[2].function = "parse_diff"
    /\ workflows.calls[1].pc = "returned"
    /\ workflows.calls[2].pc = "returned"
    /\ In(Redacted, workflows.calls[1].returned)
    /\ Len(workflows.calls[2].returned) > 1

\* The last request tried to fetch the comments of PR n and the fetch
\* raised.
C23_FetchFailed(n) ==
    \E i \in 1..Len(calls) :
        /\ calls[i].call = "get_pr_comments"
        /\ calls[i].pr = n
        /\ calls[i].raised

\* The calls of the last request that fetch the diff of PR n or post a
\* comment on it.
C23_DiffOrPost(n) ==
    { i \in 1..Len(calls) :
         /\ calls[i].pr = n
         /\ calls[i].call \in { "get_pr_diff", "post_comment" } }

\* C23: when get_pr_comments raises for a PR, _is_pr_already_reviewed is
\* true, the enhanced auto-review reports the PR as SKIPPED, does not
\* fetch its diff and posts no comment on it.
C23_FailedFetchSkips ==
    [][request'.tool \in AutoReviewTools =>
           \A n \in 1..Len(pull_requests) :
               C23_FetchFailed(n)' =>
                   /\ is_pr_already_reviewed([raised |-> TRUE, values |-> << >>])
                   /\ C20_Reported(n, "SKIPPED")'
                   /\ C23_DiffOrPost(n)' = {}
                   /\ pr_comments'[n] = pr_comments[n]]_vars

\* review_all_prs_and_comment could not fetch the comments of the first
\* PR, reported it SKIPPED and reviewed another PR.
C23_Witness ==
    /\ request.tool = "review_all_prs_and_comment"
    /\ C23_FetchFailed(1)
    /\ C20_Reported(1, "SKIPPED")
    /\ \E j \in 1..Len(response.results) : response.results[j].status = "REVIEWED"

\* The tools that review the PR an identifier names.
FindTools == { "review_pull_request", "review_pr_and_comment" }

\* The PRs that the identifier of the last request matches.
C24_Candidates == find_multiple_prs(request.pr_identifier, request.listed.prs)

\* The last request listed the PRs and its identifier matches none of
\* them or more than one.
C24_Ambiguous ==
    /\ request.tool \in FindTools
    /\ ~request.listed.raised
    /\ Len(C24_Candidates) # 1

\* The response is the error No PR found when no PR matches, else the
\* list of the candidates.
C24_Answered ==
    IF C24_Candidates = << >>
    THEN response = ErrorResult("No PR found")
    ELSE /\ response.kind = "multiple_matches"
         /\ response.options =
                [i \in 1..Len(C24_Candidates) |-> PrOption(C24_Candidates[i])]

\* The names of the calls to Bitbucket of the last request.
C24_Called ==
    IF request.tool = "review_pull_request"
    THEN { calls[i] : i \in 1..Len(calls) }
    ELSE { calls[i].call : i \in 1..Len(calls) }

\* C24: when the identifier matches no PR or more than one,
\* review_pull_request and review_pr_and_comment answer with the error No
\* PR found or with the candidates, fetch no diff and post no comment.
C24_OnlyUnambiguous ==
    C24_Ambiguous =>
        /\ C24_Answered
        /\ C24_Called \cap { "get_pr_diff", "post_comment" } = {}

\* review_pr_and_comment was called with a part of both titles and
\* answered with the two PRs after it listed the PRs and called nothing
\* else.
C24_Witness ==
    /\ request.tool = "review_pr_and_comment"
    /\ request.pr_identifier = <<"f", "i", "x">>
    /\ C24_Ambiguous
    /\ response.kind = "multiple_matches"
    /\ Len(response.options) = 2
    /\ C24_Called = { "get_all_pull_requests" }

\* The lines of the text, from the second on, that are file headers: the
\* places where the text is D1, a newline and a D2 that begins with a file
\* header.
C25_Cuts(text, tolerant) ==
    { k \in 2..Len(Split(text)) : IsFileHeader(Split(text)[k], tolerant) }

\* D1 and D2 of the cut in front of line k.
C25_D1(text, k) == Join(SubSeq(Split(text), 1, k - 1))
C25_D2(text, k) == Join(SubSeq(Split(text), k, Len(Split(text))))

\* C25: for every D1 and every D2 that begins with a file header line,
\* parse_diff of D1, a newline and D2 returns the locations of
\* parse_diff(D1) followed by those of parse_diff(D2), and so does
\* parse_original_diff.
C25_Compositional ==
    /\ pc = "parse_original_diff" =>
           \A k \in C25_Cuts(diff, TRUE) :
               /\ diff = C25_D1(diff, k) \o <<"\n">> \o C25_D2(diff, k)
               /\ parse.locations =
                      parse_diff(C25_D1(diff, k)) \o parse_diff(C25_D2(diff, k))
    /\ pc = "done" =>
           \A k \in C25_Cuts(diff, FALSE) :
               parse_original.locations =
                   parse_original_diff(C25_D1(diff, k))
                       \o parse_original_diff(C25_D2(diff, k))

\* parse_diff has returned for a diff of two files: the first file gives
\* several locations, the second begins with an addition before its first
\* hunk header and gives one location under its own path.
C25_Witness ==
    /\ pc = "parse_original_diff"
    /\ \E k \in C25_Cuts(diff, TRUE) :
           /\ Len(parse_diff(C25_D1(diff, k))) > 1
           /\ Len(parse_diff(C25_D2(diff, k))) = 1
           /\ IsAddition(Split(diff)[k + 1])
           /\ parse.locations[Len(parse.locations)].file_path
                  # parse.locations[1].file_path

\* C26: every string that detect_credentials finds in the text that
\* sanitize_diff returned is [REDACTED], for every pattern of the shipped
\* set.
C26_NoCredentialSurvives ==
    pc \in { "detect_credentials_loop", "done" } =>
        \A n \in 1..Len(found_credentials) : found_credentials[n] = Redacted

\* sanitize_diff redacted matches of a three-group and of a one-group
\* pattern, and detect_credentials of its result has returned a string.
C26_Witness ==
    /\ pc = "done"
    /\ sanitized # diff
    /\ \E r \in replaced : patterns[r.pattern].groups = 3
    /\ \E r \in replaced : patterns[r.pattern].groups = 1
    /\ Len(found_credentials) >= 1

\* The comments of the request that are skipped: P2 or a summary.
C27_SkippedOf(comments) ==
    { i \in 1..Len(comments) :
         \/ comments[i].severity \in { "P2", "SUMMARY" }
         \/ comments[i].is_summary }

\* The comments for which post_comment is called, in the order of the
\* calls.
C27_Attempted(made) == [j \in 1..Len(made) |-> made[j].of]

\* The numbers 1..n without those of the set, in ascending order.
C27_Others(n, skipped) ==
    LET Kept(i) == i \notin skipped
    IN  SelectSeq([i \in 1..n |-> i], Kept)

\* The call with confirmation true handled every comment once and in
\* order: accepted is the number of comments that Bitbucket stored.
C27_Handled(tool_request, result, made, accepted) ==
    /\ result.kind = "result"
    /\ C27_Attempted(made)
           = C27_Others(Len(tool_request.comments), C27_SkippedOf(tool_request.comments))
    /\ result.comments_posted = accepted
    /\ result.comments_failed = Len(made) - accepted
    /\ result.comments_posted + result.comments_failed
           + Cardinality(C27_SkippedOf(tool_request.comments))
               = Len(tool_request.comments)
    /\ result.success <=> (Len(made) = accepted)

\* C27: post_review_comments with confirmation true skips the P2 and
\* summary comments, calls post_comment once for every other comment in
\* the order of the list, also after a call has failed, counts every
\* comment as posted, failed or skipped, and reports success exactly when
\* no call failed.
C27_EveryCommentHandled ==
    [][(/\ served' # served
        /\ request'.tool = "post_review_comments"
        /\ request'.confirmation) =>
           C27_Handled(request', response', calls',
                       Len(pr_comments'[request'.pr]) - Len(pr_comments[request'.pr]))]_vars

\* C27 for the lists whose comments all carry a severity of SeverityLevel.
C27_ValidCommentsHandled ==
    [][(/\ served' # served
        /\ request'.tool = "post_review_comments"
        /\ request'.confirmation
        /\ \A i \in 1..Len(request'.comments) :
               request'.comments[i].severity \in SeverityLevel) =>
           C27_Handled(request', response', calls',
                       Len(pr_comments'[request'.pr]) - Len(pr_comments[request'.pr]))]_vars

\* Of five comments three were skipped and post_comment was called for
\* the other two: the first call failed, the second was accepted.
C27_Witness ==
    /\ request.tool = "post_review_comments"
    /\ request.confirmation
    /\ Len(request.comments) = 5
    /\ response.kind = "result"
    /\ C27_Attempted(calls) = << 2, 4 >>
    /\ response.comments_failed = 1
    /\ response.comments_posted = 1
    /\ response.failed_comments[1].severity = "P0"
    /\ ~response.success

\* The open PRs that the last request listed.
C28_OpenPrs ==
    LET IsOpen(pr) == pr.status = "OPEN"
    IN  SelectSeq(request.listed.prs, IsOpen)

\* The calls of the last request with the name for PR n.
C28_Calls(name, n) ==
    { i \in 1..Len(calls) : calls[i].call = name /\ calls[i].pr = n }

\* The last request was review-all and found open PRs.
C28_ReviewedAll ==
    /\ request.tool = "review_all_prs_and_comment"
    /\ ~request.listed.raised
    /\ C28_OpenPrs # << >>

\* C28: review-all reports every open PR once, in the order of the list,
\* as SKIPPED, REVIEWED or ERROR, asks for the comments of every open PR
\* whatever happened to the PRs in front of it, reports no PR that is not
\* open, and prs_reviewed, prs_skipped and the number of ERROR results add
\* up to total_open_prs.
C28_EveryOpenPrOnce ==
    C28_ReviewedAll =>
        /\ response.kind = "success"
        /\ response.total_open_prs = Len(C28_OpenPrs)
        /\ Len(response.results) = Len(C28_OpenPrs)
        /\ \A j \in 1..Len(C28_OpenPrs) :
               /\ response.results[j].pr_id = C28_OpenPrs[j].id
               /\ response.results[j].status \in { "SKIPPED", "REVIEWED", "ERROR" }
               /\ Cardinality(C28_Calls("get_pr_comments",
                                        PrIndex(request.listed.prs, C28_OpenPrs[j]))) = 1
        /\ response.prs_reviewed + response.prs_skipped
               + Cardinality({ j \in 1..Len(response.results) :
                                  response.results[j].status = "ERROR" })
                   = response.total_open_prs

\* The diff of the first PR could not be fetched or reviewed, and the
\* second PR was processed after it and skipped.
C28_Witness ==
    /\ C28_ReviewedAll
    /\ Len(response.results) = 2
    /\ response.results[1].status = "REVIEWED"
    /\ C28_Calls("get_pr_diff", 1) # {}
    /\ response.results[1].comments_posted = 0
    /\ response.results[2].status = "SKIPPED"
    /\ C28_Calls("get_pr_comments", 2) # {}
====
